---- MODULE Spec2Model ----
(***************************************************************************)
(* A model of the nf-e crate: the document model (Info and its parts), the *)
(* key / check-digit generator, the staged InfoBuilder, the process-wide   *)
(* Config store and the XML codec of Info.                                 *)
(*                                                                         *)
(* Conventions.                                                            *)
(*  - A Rust String of decimal digits is a sequence of the digits 0..9; a  *)
(*    character that is not a decimal digit is the value NonDigit.         *)
(*  - An f64 amount is an integer count of 1/Scale (Scale = 10000), so     *)
(*    both the 2-decimal and the 4-decimal text formats are expressible.   *)
(*    Sums are exact on that grid.                                         *)
(*  - Option<T> is None or the value; an enum value is its variant name.   *)
(*  - A panic is an outcome of its own ("panic"), never an error value.    *)
(***************************************************************************)
EXTENDS Integers, Sequences, FiniteSets, TLC

VARIABLES
    CONFIG,      \* the Option<Config> inside the RwLock: None or the issuer it holds
    poisoned,    \* the RwLock of CONFIG is poisoned
    builder,     \* the InfoBuilder value in progress, or None
    last_op,     \* the last operation applied to the current builder value
    result,      \* the outcome of the last InfoBuilder::new / build
    info,        \* the Info returned by the last successful build, or None
    xml,         \* an infNFe document (element tree), or None
    decoded,     \* the outcome of the last decode of an infNFe document, or None
    tampers,     \* how many parts of xml were replaced since it was encoded
    key_in,      \* key generator: the digit string under test
    key_edits,   \* key generator: how many digits of key_in were replaced
    key_out,     \* key generator: the last verifier_digit call, or None
    threads,     \* store callers: per thread, the call in progress and its outcome
    lock,        \* store: the threads holding the RwLock of CONFIG, by kind of guard
    history,     \* store: the set_config calls that took effect and that returned
    probe        \* a function of the crate applied on its own: its input and result

vars ==
    <<CONFIG, poisoned, builder, last_op, result, info, xml, decoded, tampers,
      key_in, key_edits, key_out, threads, lock, history, probe>>

None == [none |-> TRUE]

Some(v) == [some |-> v]

\* A character that is no decimal digit (any value outside 0..9 is one).
NonDigit == 10

Scale == 10000

----------------------------------------------------------------------------
(* Strings and numbers *)

Abs(x) == IF x < 0 THEN 0 - x ELSE x

RECURSIVE to_string(_)
\* Display of an unsigned integer: its decimal digits, no padding.
to_string(n) == IF n < 10 THEN <<n>> ELSE to_string(n \div 10) \o <<n % 10>>

RECURSIVE repeat(_, _)
repeat(c, n) == IF n <= 0 THEN <<>> ELSE <<c>> \o repeat(c, n - 1)

\* utils::left_pad: never truncates; pads on the left up to total_length.
left_pad(input, total_length, pad_char) ==
    IF Len(input) >= total_length
      THEN input
      ELSE repeat(pad_char, total_length - Len(input)) \o input

IsDigit(c) == c \in 0 .. 9

RECURSIVE parse_digits(_, _)
parse_digits(s, acc) ==
    IF s = <<>> THEN acc ELSE parse_digits(Tail(s), acc * 10 + Head(s))

----------------------------------------------------------------------------
(* Enumerated code sets: variant name |-> code *)

StateCode ==
    [ Rondonia |-> 11, Acre |-> 12, Amazonas |-> 13, Roraima |-> 14, Para |-> 15,
      Amapa |-> 16, Tocantins |-> 17, Maranhao |-> 21, Piaui |-> 22, Ceara |-> 23,
      RioGrandeDoNorte |-> 24, Paraiba |-> 25, Pernambuco |-> 26, Alagoas |-> 27,
      Sergipe |-> 28, Bahia |-> 29, MinasGerais |-> 31, EspiritoSanto |-> 32,
      RioDeJaneiro |-> 33, SaoPaulo |-> 35, Parana |-> 41, SantaCatarina |-> 42,
      RioGrandeDoSul |-> 43, MatoGrossoDoSul |-> 50, MatoGrosso |-> 51,
      Goias |-> 52, DistritoFederal |-> 53 ]

StateAcronym ==
    [ Rondonia |-> "RO", Acre |-> "AC", Amazonas |-> "AM", Roraima |-> "RR", Para |-> "PA",
      Amapa |-> "AP", Tocantins |-> "TO", Maranhao |-> "MA", Piaui |-> "PI", Ceara |-> "CE",
      RioGrandeDoNorte |-> "RN", Paraiba |-> "PB", Pernambuco |-> "PE", Alagoas |-> "AL",
      Sergipe |-> "SE", Bahia |-> "BA", MinasGerais |-> "MG", EspiritoSanto |-> "ES",
      RioDeJaneiro |-> "RJ", SaoPaulo |-> "SP", Parana |-> "PR", SantaCatarina |-> "SC",
      RioGrandeDoSul |-> "RS", MatoGrossoDoSul |-> "MS", MatoGrosso |-> "MT",
      Goias |-> "GO", DistritoFederal |-> "DF" ]

ModelCode == [ NFe |-> 55, NFCe |-> 65 ]

OperationCode == [ Incoming |-> 0, Outgoing |-> 1 ]

DestinationTargetCode == [ Internal |-> 1, Interstate |-> 2, External |-> 3 ]

DanfeGenerationCode ==
    [ NormalPortrait |-> 1, NormalLandscape |-> 2, Simplified |-> 3, NFCe |-> 4,
      NFCeVirtual |-> 5 ]

EmissionTypeCode ==
    [ Normal |-> 1, FSIA |-> 2, EPEC |-> 4, FSDA |-> 5, SVCAN |-> 6, SVCRS |-> 7,
      Offline |-> 9 ]

EnvironmentCode == [ Production |-> 1, Homologation |-> 2 ]

FinalityCode == [ Normal |-> 1, Complementary |-> 2, Adjustment |-> 3, Cancellation |-> 4 ]

PresenceCode ==
    [ InplaceIndoor |-> 1, InplaceOutdoor |-> 5, Internet |-> 2, Teleservice |-> 3,
      Delivery |-> 4, Other |-> 9 ]

TransportTypeCode ==
    [ CIF |-> 0, FOB |-> 1, ThirdParty |-> 2, Issuer |-> 3, Recipient |-> 4, None |-> 9 ]

PaymentTypeCode ==
    [ Cash |-> 1, Check |-> 2, CreditCard |-> 3, DebitCard |-> 4, ShopCredit |-> 5,
      FoodVoucher |-> 6, MealVoucher |-> 7, GiftCard |-> 8, GasVoucher |-> 9,
      Boleto |-> 15, BankDeposit |-> 16, PIX |-> 17, Transfer |-> 18, Program |-> 19 ]

CSOSNCode == [ FinalConsumer |-> 102 ]

OriginCode ==
    [ National |-> 0, NationalInConformity |-> 4, NationalContentBelow40 |-> 5,
      NationalContentBetween40And70 |-> 3, NationalContentAbove70 |-> 8, Foreign |-> 1,
      ForeignInternalMarket |-> 2, ForeignNoSimilar |-> 6,
      ForeignInternalMarketNoSimilar |-> 7 ]

IntermediatorCode == [ External |-> 1 ]

\* Result values of the fallible conversions and of the decoders.
Ok(v) == [ok |-> TRUE, val |-> v]

Err(msg) == [ok |-> FALSE, err |-> msg]

\* TryFrom<u8> of a code set given as its table: the variant whose code is value.
try_from(table, value) ==
    IF \E v \in DOMAIN table : table[v] = value
      THEN Ok(CHOOSE v \in DOMAIN table : table[v] = value)
      ELSE Err("Invalid value")

\* State::from_acronym
from_acronym(acronym) ==
    IF \E s \in DOMAIN StateAcronym : StateAcronym[s] = acronym
      THEN Ok(CHOOSE s \in DOMAIN StateAcronym : StateAcronym[s] = acronym)
      ELSE Err("Invalid state acronym")

----------------------------------------------------------------------------
(* Key / ID generator (impl Info) *)

RECURSIVE verifier_fold(_, _, _)
\* The fold of Info::verifier_digit: acc + d * weight, the weight stepping
\* 4, 3, 2, 9, 8, ... with "if weight <= 2 { 9 } else { weight - 1 }".
verifier_fold(chars, acc, weight) ==
    IF chars = <<>>
      THEN acc
      ELSE verifier_fold(Tail(chars), acc + Head(chars) * weight,
                         IF weight <= 2 THEN 9 ELSE weight - 1)

\* to_digit(10) fails on a character that is no decimal digit: verifier_digit panics.
verifier_digit_panics(chars) == \E i \in 1 .. Len(chars) : ~IsDigit(chars[i])

\* verifier_digit with the weight reset one step late (4, 3, 2, 1, 9, ...).
verifier_digit_reset_late(chars) ==
    LET RECURSIVE fold(_, _, _)
        fold(cs, acc, weight) ==
            IF cs = <<>>
              THEN acc
              ELSE fold(Tail(cs), acc + Head(cs) * weight,
                        IF weight < 2 THEN 9 ELSE weight - 1)
        remainder == fold(chars, 0, 4) % 11
    IN  IF remainder > 1 THEN 11 - remainder ELSE 0

\* Info::verifier_digit on a string of decimal digits.
verifier_digit(chars) ==
    LET remainder == verifier_fold(chars, 0, 4) % 11
    IN  IF remainder > 1 THEN 11 - remainder ELSE 0

\* "NFe", the literal prefix of Info::id ('N', 'F', 'e' as character codes).
NFe_prefix == <<78, 70, 101>>

\* PersonDocument::as_str: the wrapped string of either variant.
as_str(document) == document.value

\* The string Info::bare_id has pushed together when it reaches its assert_eq!.
bare_id_pushed(identification, issuer) ==
    LET year == to_string(identification.emission_date.year)
    IN  to_string(StateCode[identification.location.state])
        \o SubSeq(year, 3, Len(year))
        \o to_string(identification.emission_date.month)
        \o left_pad(as_str(issuer.document), 14, 0)
        \o to_string(ModelCode[identification.model])
        \o left_pad(to_string(identification.series), 3, 0)
        \o left_pad(to_string(identification.number), 9, 0)
        \o to_string(EmissionTypeCode[identification.emission_type])
        \o left_pad(to_string(identification.numeric_code), 8, 0)

\* Info::bare_id without its assert_eq!: it panics on a short year only.
bare_id_panics_unasserted(identification, issuer) ==
    Len(to_string(identification.emission_date.year)) < 2

\* Info::bare_id panics when the year has fewer than 2 characters ([2..]) or
\* when assert_eq!(id.len(), 43) fails.
bare_id_panics(identification, issuer) ==
    \/ Len(to_string(identification.emission_date.year)) < 2
    \/ Len(bare_id_pushed(identification, issuer)) # 43

\* Info::bare_id, where it returns.
bare_id(identification, issuer) == bare_id_pushed(identification, issuer)

\* Info::id panics when bare_id or verifier_digit does.
id_panics(identification, issuer) ==
    \/ bare_id_panics(identification, issuer)
    \/ verifier_digit_panics(bare_id(identification, issuer))

\* Info::id, where it returns: format!("NFe{}{}", id, self.verifier_digit(&id)).
id(identification, issuer) ==
    LET bare == bare_id(identification, issuer)
    IN  NFe_prefix \o bare \o to_string(verifier_digit(bare))

----------------------------------------------------------------------------
(* Sample values: the crate's test fixtures and values next to them *)

\* An f64 amount written with two decimals, e.g. amount(11394) is 113.94.
amount(hundredths) == hundredths * (Scale \div 100)

\* tests::setup_identification
setup_identification ==
    [ location |-> [ state |-> "MinasGerais",
                     city |-> [ code |-> 3106200, name |-> "Belo Horizonte" ] ],
      numeric_code |-> 12345678,
      operation_nature |-> "Venda de mercadoria",
      model |-> "NFCe",
      series |-> 1,
      number |-> 12345,
      emission_date |-> [ year |-> 2023, month |-> 10, rest |-> "05T14:30:00" ],
      date |-> None,
      type |-> "Outgoing",
      destination |-> "Internal",
      printing_type |-> Some("NFCe"),
      emission_type |-> "Normal",
      verifier_digit |-> 5,
      environment |-> "Production",
      finality |-> "Normal",
      consumer |-> TRUE,
      presence |-> Some("InplaceIndoor"),
      intermediator |-> None ]

\* The Identification values given to InfoBuilder::new: the fixture; the fixture
\* emitted in January; one with a 10-digit number; one with short fields that
\* need padding, no optional field but the exit date and Presence::Other; one
\* whose caller-supplied verifier digit happens to be the right one.
Identifications ==
    { setup_identification,
      [ setup_identification EXCEPT !.emission_date.month = 1 ],
      [ setup_identification EXCEPT !.number = 1000000000 ],
      [ setup_identification EXCEPT
          !.location.state = "SaoPaulo", !.numeric_code = 42, !.model = "NFe",
          !.series = 255, !.number = 7, !.emission_date.month = 12,
          !.date = Some([ year |-> 2023, month |-> 12, rest |-> "06T08:00:00" ]),
          !.printing_type = None, !.emission_type = "Offline", !.verifier_digit = 0,
          !.consumer = FALSE, !.presence = Some("Other"),
          !.intermediator = Some("External") ],
      [ setup_identification EXCEPT !.verifier_digit = 3, !.presence = None ] }

\* tests::setup_address
setup_address ==
    [ line_1 |-> "Rua Exemplo", line_2 |-> Some("Loja 1"), number |-> "123",
      neighborhood |-> "Centro",
      city |-> [ code |-> 3106200, name |-> "Belo Horizonte" ],
      state |-> "MinasGerais", zip_code |-> "01001000", telephone |-> "3132123456" ]

\* tests::setup_issuer
setup_issuer ==
    [ document |-> [ kind |-> "CNPJ", value |-> <<1, 2, 3, 4, 5, 6, 7, 8, 0, 0, 0, 1, 9, 5>> ],
      name |-> "Empresa Exemplo LTDA",
      trade_name |-> Some("Empresa Exemplo"),
      address |-> [ address |-> setup_address, ie |-> "123456789" ] ]

\* The issuers given to set_config: the fixture; a person with a CPF (11
\* digits) and no optional field; a company whose CNPJ holds a letter.
Issuers ==
    { setup_issuer,
      [ setup_issuer EXCEPT
          !.document = [ kind |-> "CPF", value |-> <<1, 2, 3, 4, 5, 6, 7, 8, 9, 0, 1>> ],
          !.trade_name = None, !.address.address.line_2 = None ],
      [ setup_issuer EXCEPT
          !.document.value = <<1, 2, NonDigit, 4, 5, 6, 7, 8, 0, 0, 0, 1, 9, 5>> ] }

\* tests::setup_payments
setup_payments ==
    << [ type |-> "Cash", value |-> amount(4000) ],
       [ type |-> "CreditCard", value |-> amount(7394) ] >>

\* The Payments values given to InfoBuilder::new.
PaymentsSamples ==
    { setup_payments,
      << [ type |-> "PIX", value |-> amount(10000) ] >>,
      << [ type |-> "PIX", value |-> amount(15697) ] >>,
      << >> }

\* tests::setup_tax
setup_tax ==
    [ icms |-> [ variant |-> "ICMSSN102",
                 data |-> [ origin |-> "National", csosn |-> "FinalConsumer" ] ] ]

\* tests::setup_item: 3 units at 18.99
setup_item ==
    [ code |-> "7896235354499", gtin |-> Some("7896235354499"),
      description |-> "desodorante aerosol monange 200ML",
      ncm |-> 33072010, cfop |-> 5403, unit |-> "UN",
      quantity |-> 3 * Scale, total_value |-> amount(5697),
      tribute_unit |-> "UN", tribute_quantity |-> 3 * Scale,
      tribute_unit_value |-> amount(1899),
      discount_value |-> None, other_value |-> None, included |-> TRUE ]

\* The Detail values given to add_detail: the fixture, and an item without GTIN,
\* with a discount and other charges, not included in the total (110 - 20 + 10).
Details ==
    { [ item |-> setup_item, tax |-> setup_tax ],
      [ item |-> [ setup_item EXCEPT
                     !.gtin = None, !.quantity = Scale, !.total_value = amount(11000),
                     !.tribute_quantity = Scale, !.tribute_unit_value = amount(11000),
                     !.discount_value = Some(amount(2000)),
                     !.other_value = Some(amount(1000)), !.included = FALSE ],
          tax |-> setup_tax ] }

\* tests::setup_authorized
setup_authorized ==
    [ documents |->
        << [ kind |-> "CNPJ", value |-> <<1, 2, 3, 4, 5, 6, 7, 8, 0, 0, 0, 1, 9, 5>> ],
           [ kind |-> "CPF", value |-> <<1, 2, 3, 4, 5, 6, 7, 8, 9, 0, 1>> ] >> ]

Authorizeds ==
    { setup_authorized,
      [ documents |-> << [ kind |-> "CPF", value |-> <<1, 2, 3, 4, 5, 6, 7, 8, 9, 0, 1>> ] >> ] }

Transports == { [ type |-> "FOB" ], [ type |-> "CIF" ] }

\* The number of add_detail calls one builder receives in the model.
MaxDetails == 2

----------------------------------------------------------------------------
(* Config store (config.rs) *)

\* RwLock::read / RwLock::write fail exactly when the lock is poisoned.
lock_fails == poisoned

\* get_issuer reading the value without regard to the state of the lock.
get_issuer_unlocked ==
    IF CONFIG # None THEN Ok(CONFIG.issuer) ELSE Err("NotInitialized")

\* config::get_issuer
get_issuer ==
    IF lock_fails
      THEN Err("Locked")
      ELSE IF CONFIG # None THEN Ok(CONFIG.issuer) ELSE Err("NotInitialized")

\* config::set_config: replaces the value unless the lock is poisoned.
set_config(config) ==
    /\ CONFIG' = IF lock_fails THEN CONFIG ELSE config
    /\ UNCHANGED <<poisoned, builder, last_op, result, info, xml, decoded, tampers>>
    /\ UNCHANGED <<key_in, key_edits, key_out>>
    /\ UNCHANGED <<threads, lock, history, probe>>

\* A thread panics while it holds the write guard of CONFIG: the lock is poisoned.
PoisonLock ==
    /\ ~poisoned
    /\ poisoned' = TRUE
    /\ UNCHANGED <<CONFIG, builder, last_op, result, info, xml, decoded, tampers>>
    /\ UNCHANGED <<key_in, key_edits, key_out>>
    /\ UNCHANGED <<threads, lock, history, probe>>

----------------------------------------------------------------------------
(* Total and the InfoBuilder (models.rs) *)

RECURSIVE fold_sum(_, _)
\* iter().fold(0.0, |acc, x| acc + x) over the values of a Vec, left to right
fold_sum(values, acc) ==
    IF values = <<>> THEN acc ELSE fold_sum(Tail(values), acc + Head(values))

\* Option<f64>::unwrap_or(0.0)
unwrap_or_zero(opt) == IF opt = None THEN 0 ELSE opt.some

\* Total::calculate reporting no discount while the total still deducts it
calculate_without_vDesc(b) ==
    LET n == Len(b.details)
        total_products ==
            fold_sum([ i \in 1 .. n |-> b.details[i].item.total_value ], 0)
        discount ==
            fold_sum([ i \in 1 .. n |-> unwrap_or_zero(b.details[i].item.discount_value) ], 0)
        unburdened == 0
        freight == 0
        insurance == 0
        other ==
            fold_sum([ i \in 1 .. n |-> unwrap_or_zero(b.details[i].item.other_value) ], 0)
        import_tax == 0
        industrial_tax == 0
        refunded_industrial_tax == 0
        total_value == total_products - discount - unburdened + freight + insurance
                       + other + import_tax + industrial_tax + refunded_industrial_tax
    IN  [ icms |->
            [ base |-> 0, value |-> 0, unburdened |-> unburdened, fcp_value |-> 0,
              base_tributary_substitution |-> 0, total_tributary_substitution |-> 0,
              fcp_value_tributary_substitution |-> 0,
              retained_fcp_value_tributary_substitution |-> 0,
              total_products |-> total_products, freight |-> freight,
              insurance |-> insurance, discount |-> 0, import_tax |-> import_tax,
              industrial_tax |-> industrial_tax,
              refunded_industrial_tax |-> refunded_industrial_tax,
              pis_value |-> 0, cofins_value |-> 0, other |-> other,
              total |-> total_value ] ]

\* Total::calculate
calculate(b) ==
    LET n == Len(b.details)
        total_products ==
            fold_sum([ i \in 1 .. n |-> b.details[i].item.total_value ], 0)
        discount ==
            fold_sum([ i \in 1 .. n |-> unwrap_or_zero(b.details[i].item.discount_value) ], 0)
        unburdened == 0
        freight == 0
        insurance == 0
        other ==
            fold_sum([ i \in 1 .. n |-> unwrap_or_zero(b.details[i].item.other_value) ], 0)
        import_tax == 0
        industrial_tax == 0
        refunded_industrial_tax == 0
        total_value == total_products - discount - unburdened + freight + insurance
                       + other + import_tax + industrial_tax + refunded_industrial_tax
    IN  [ icms |->
            [ base |-> 0, value |-> 0, unburdened |-> unburdened, fcp_value |-> 0,
              base_tributary_substitution |-> 0, total_tributary_substitution |-> 0,
              fcp_value_tributary_substitution |-> 0,
              retained_fcp_value_tributary_substitution |-> 0,
              total_products |-> total_products, freight |-> freight,
              insurance |-> insurance, discount |-> discount, import_tax |-> import_tax,
              industrial_tax |-> industrial_tax,
              refunded_industrial_tax |-> refunded_industrial_tax,
              pis_value |-> 0, cofins_value |-> 0, other |-> other,
              total |-> total_value ] ]

\* (paid - expected).abs() < f64::EPSILON. EPSILON is 2^-52, far below one step
\* 1/Scale of the amount grid: a difference is below it exactly when it is no step.
within_EPSILON(paid, expected) == Abs(paid - expected) < 1

\* The sum the builder pays: payments.iter().fold(0.0, |acc, p| acc + p.value)
paid_sum(payments) == fold_sum([ i \in 1 .. Len(payments) |-> payments[i].value ], 0)

\* InfoBuilder::check_paid
check_paid(b, total) ==
    LET paid == paid_sum(b.payments)
        expected == total.icms.total
    IN  IF within_EPSILON(paid, expected)
          THEN Ok("unit")
          ELSE Err([ kind |-> "PaymentsDoNotMatchTotal",
                     expected |-> expected, total |-> paid ])

\* InfoBuilder::new
new(identification, payments) ==
    LET issuer == get_issuer
    IN  IF issuer.ok
          THEN Ok([ identification |-> identification, issuer |-> issuer.val,
                    payments |-> payments, details |-> <<>>, authorized |-> None,
                    transport |-> None ])
          ELSE Err([ kind |-> "ConfigError", error |-> issuer.err ])

\* A builder that put each new detail in front of the earlier ones.
add_detail_prepended(b, detail) == [ b EXCEPT !.details = <<detail>> \o @ ]

\* InfoBuilder::add_detail
add_detail(b, detail) == [ b EXCEPT !.details = Append(@, detail) ]

\* InfoBuilder::set_authorized
set_authorized(b, authorized) == [ b EXCEPT !.authorized = Some(authorized) ]

\* InfoBuilder::set_transport
set_transport(b, transport) == [ b EXCEPT !.transport = Some(transport) ]

\* Transport::default(): TransportType::None
default_transport == [ type |-> "None" ]

\* build without its last statement: the caller's verifier digit is kept.
assign_verifier_digit_kept(assembled) == assembled

\* The last statement of InfoBuilder::build, where bare_id and verifier_digit
\* return: info.identification.verifier_digit = info.verifier_digit(&info.bare_id())
assign_verifier_digit(assembled) ==
    [ assembled EXCEPT !.identification.verifier_digit =
        verifier_digit(bare_id(assembled.identification, assembled.issuer)) ]

\* InfoBuilder::build taking the issuer from the Config store again
build_from_store(b) ==
    LET total == calculate(b)
        paid == check_paid(b, total)
        assembled ==
            [ identification |-> b.identification, issuer |-> IF get_issuer.ok THEN get_issuer.val ELSE b.issuer,
              details |-> b.details, authorized |-> b.authorized,
              payments |-> b.payments, total |-> total,
              transport |-> IF b.transport = None THEN default_transport
                                                  ELSE b.transport.some ]
    IN  IF ~paid.ok
          THEN [ kind |-> "Err", error |-> paid.err ]
          ELSE IF bare_id_panics(assembled.identification, assembled.issuer)
                 THEN [ kind |-> "panic", at |-> "bare_id" ]
                 ELSE IF verifier_digit_panics(bare_id(assembled.identification,
                                                       assembled.issuer))
                        THEN [ kind |-> "panic", at |-> "verifier_digit" ]
                        ELSE [ kind |-> "Ok", info |-> assign_verifier_digit(assembled) ]

\* InfoBuilder::build: Ok(Info), Err(PaymentsDoNotMatchTotal), or a panic of
\* bare_id / verifier_digit in the last statement.
build(b) ==
    LET total == calculate(b)
        paid == check_paid(b, total)
        assembled ==
            [ identification |-> b.identification, issuer |-> b.issuer,
              details |-> b.details, authorized |-> b.authorized,
              payments |-> b.payments, total |-> total,
              transport |-> IF b.transport = None THEN default_transport
                                                  ELSE b.transport.some ]
    IN  IF ~paid.ok
          THEN [ kind |-> "Err", error |-> paid.err ]
          ELSE IF bare_id_panics(assembled.identification, assembled.issuer)
                 THEN [ kind |-> "panic", at |-> "bare_id" ]
                 ELSE IF verifier_digit_panics(bare_id(assembled.identification,
                                                       assembled.issuer))
                        THEN [ kind |-> "panic", at |-> "verifier_digit" ]
                        ELSE [ kind |-> "Ok", info |-> assign_verifier_digit(assembled) ]

----------------------------------------------------------------------------
(* Codec: text of the primitive values *)

\* A panic met while decoding: an outcome that is neither Ok nor Err.
Panic(at) == [ok |-> FALSE, panic |-> at]

IsErr(r) == ~r.ok /\ "err" \in DOMAIN r

IsPanic(r) == ~r.ok /\ "panic" \in DOMAIN r

RECURSIVE first_failure(_)
\* The first result that is not Ok, in the order the parts are decoded.
first_failure(results) ==
    IF results = <<>> THEN Ok("unit")
    ELSE IF ~Head(results).ok THEN Head(results)
    ELSE first_failure(Tail(results))

AllDigits(text) == Len(text) >= 1 /\ \A i \in 1 .. Len(text) : IsDigit(text[i])

\* str::parse::<u8>
parse_u8(text) ==
    IF AllDigits(text) /\ Len(text) <= 9 /\ parse_digits(text, 0) <= 255
      THEN Ok(parse_digits(text, 0))
      ELSE Err("invalid u8")

\* str::parse::<u32>; the model's numbers stay below 2^31, so ten digits are
\* read when they start with 1 and nine or fewer always.
parse_u32(text) ==
    IF AllDigits(text) /\ (Len(text) <= 9 \/ (Len(text) = 10 /\ text[1] <= 1))
      THEN Ok(parse_digits(text, 0))
      ELSE Err("invalid u32")

\* format!("{:.N}", v) of a non-negative amount: integer part, '.', N decimals.
\* (Rounds to the nearest; the model's amounts are never halfway.)
format_fixed(v, decimals) ==
    LET unit == Scale \div (10 ^ decimals)
        r == (v + unit \div 2) \div unit
    IN  [ int |-> to_string(r \div (10 ^ decimals)),
          frac |-> left_pad(to_string(r % (10 ^ decimals)), decimals, 0) ]

\* str::parse::<f64> of a decimal text with at most four decimals.
parse_f64(text) ==
    IF AllDigits(text.int) /\ AllDigits(text.frac) /\ Len(text.frac) <= 4
      THEN Ok(parse_digits(text.int, 0) * Scale
              + parse_digits(text.frac \o repeat(0, 4 - Len(text.frac)), 0))
      ELSE Err("invalid float literal")

\* impl Serialize for F64: format!("{:.2}", self.0)
ser_F64(value) == format_fixed(value, 2)

\* derive(Deserialize) for F64(f64)
de_F64(text) == parse_f64(text)

\* Serialize of an enum written "as u8": the decimal text of its code.
ser_code(table, variant) == to_string(table[variant])

\* Deserialize of a u8 field followed by TryFrom<u8>.
de_code(table, text) ==
    LET n == parse_u8(text)
    IN  IF n.ok THEN try_from(table, n.val) ELSE n

----------------------------------------------------------------------------
(* Codec: Identification (ide) *)

\* DateTime::to_rfc3339: "YYYY-MM-" and the rest of the instant.
to_rfc3339(date) ==
    [ yyyy |-> left_pad(to_string(date.year), 4, 0),
      mm |-> left_pad(to_string(date.month), 2, 0),
      rest |-> date.rest ]

\* DateTime::parse_from_rfc3339(..).with_timezone(&Local) of a text written with
\* the offset of the process, where the conversion keeps the fields: four year
\* digits, two month digits naming a month, and the rest. (A text of another
\* offset: with_timezone below.)
parse_from_rfc3339(text) ==
    IF /\ Len(text.yyyy) = 4 /\ AllDigits(text.yyyy)
       /\ Len(text.mm) = 2 /\ AllDigits(text.mm)
       /\ parse_digits(text.mm, 0) \in 1 .. 12
      THEN Ok([ year |-> parse_digits(text.yyyy, 0), month |-> parse_digits(text.mm, 0),
                rest |-> text.rest ])
      ELSE Err("invalid RFC 3339 timestamp")

\* impl Serialize for Identification
ser_Identification(ide) ==
    [ cUF |-> ser_code(StateCode, ide.location.state),
      cNF |-> to_string(ide.numeric_code),
      natOp |-> ide.operation_nature,
      mod |-> ser_code(ModelCode, ide.model),
      serie |-> to_string(ide.series),
      nNF |-> to_string(ide.number),
      dhEmi |-> to_rfc3339(ide.emission_date),
      dhSaiEnt |-> IF ide.date = None THEN None ELSE Some(to_rfc3339(ide.date.some)),
      tpNF |-> ser_code(OperationCode, ide.type),
      idDest |-> ser_code(DestinationTargetCode, ide.destination),
      cMunFG |-> to_string(ide.location.city.code),
      xMun |-> ide.location.city.name,
      tpImp |-> IF ide.printing_type = None THEN None
                ELSE Some(ser_code(DanfeGenerationCode, ide.printing_type.some)),
      tpEmis |-> ser_code(EmissionTypeCode, ide.emission_type),
      cDV |-> to_string(ide.verifier_digit),
      tpAmb |-> ser_code(EnvironmentCode, ide.environment),
      finNFe |-> ser_code(FinalityCode, ide.finality),
      indFinal |-> IF ide.consumer THEN to_string(1) ELSE to_string(0),
      indPres |-> IF ide.presence = None THEN to_string(0)
                  ELSE ser_code(PresenceCode, ide.presence.some),
      intermed |-> ide.intermediator,
      procEmi |-> to_string(0),
      verProc |-> "LIBRARY_VERSION" ]

\* The presence match of Identification's Deserialize:
\* 0 => None, 1..=6 => Presence::try_from, _ => Err
de_presence(ind_pres) ==
    IF ind_pres = 0 THEN Ok(None)
    ELSE IF ind_pres \in 1 .. 6
      THEN LET p == try_from(PresenceCode, ind_pres)
           IN  IF p.ok THEN Ok(Some(p.val)) ELSE p
    ELSE Err("Invalid ind_pres value")

\* impl Deserialize for Identification
de_Identification(el) ==
    LET c_uf == parse_u8(el.cUF)
        c_nf == parse_u32(el.cNF)
        model_u8 == parse_u8(el.mod)
        serie == parse_u8(el.serie)
        n_nf == parse_u32(el.nNF)
        tp_nf == parse_u8(el.tpNF)
        id_dest == parse_u8(el.idDest)
        c_mun_fg == parse_u32(el.cMunFG)
        tp_imp == IF el.tpImp = None THEN Ok(None) ELSE parse_u8(el.tpImp.some)
        tp_emis == parse_u8(el.tpEmis)
        c_dv == parse_u8(el.cDV)
        tp_amb == parse_u8(el.tpAmb)
        fin_nfe == parse_u8(el.finNFe)
        ind_final == parse_u8(el.indFinal)
        ind_pres == parse_u8(el.indPres)
        intermed == IF el.intermed = None \/ el.intermed = Some("External")
                      THEN Ok(el.intermed) ELSE Err("unknown variant")
        helper == first_failure(<< c_uf, c_nf, model_u8, serie, n_nf, tp_nf, id_dest,
                                   c_mun_fg, tp_imp, tp_emis, c_dv, tp_amb, fin_nfe,
                                   ind_final, ind_pres, intermed >>)
        state == try_from(StateCode, c_uf.val)
        model == try_from(ModelCode, model_u8.val)
        type == try_from(OperationCode, tp_nf.val)
        destination == try_from(DestinationTargetCode, id_dest.val)
        printing_type ==
            IF el.tpImp = None THEN Ok(None)
            ELSE LET v == try_from(DanfeGenerationCode, tp_imp.val)
                 IN  IF v.ok THEN Ok(Some(v.val)) ELSE v
        emission_type == try_from(EmissionTypeCode, tp_emis.val)
        environment == try_from(EnvironmentCode, tp_amb.val)
        finality == try_from(FinalityCode, fin_nfe.val)
        consumer == ind_final.val = 1
        presence == de_presence(ind_pres.val)
        emission_date == parse_from_rfc3339(el.dhEmi)
        date ==
            IF el.dhSaiEnt = None THEN Ok(None)
            ELSE LET v == parse_from_rfc3339(el.dhSaiEnt.some)
                 IN  IF v.ok THEN Ok(Some(v.val)) ELSE v
        converted == first_failure(<< state, model, type, destination, printing_type,
                                      emission_type, environment, finality, presence,
                                      emission_date, date >>)
    IN  IF ~helper.ok THEN helper
        ELSE IF ~converted.ok THEN converted
        ELSE Ok([ location |-> [ state |-> state.val,
                                 city |-> [ code |-> c_mun_fg.val, name |-> el.xMun ] ],
                  numeric_code |-> c_nf.val,
                  operation_nature |-> el.natOp,
                  model |-> model.val,
                  series |-> serie.val,
                  number |-> n_nf.val,
                  emission_date |-> emission_date.val,
                  date |-> date.val,
                  type |-> type.val,
                  destination |-> destination.val,
                  printing_type |-> printing_type.val,
                  emission_type |-> emission_type.val,
                  verifier_digit |-> c_dv.val,
                  environment |-> environment.val,
                  finality |-> finality.val,
                  consumer |-> consumer,
                  presence |-> presence.val,
                  intermediator |-> el.intermed ])

----------------------------------------------------------------------------
(* Codec: Issuer (emit), Authorized (autXML), Transport, Payments, Total *)

\* derive(Serialize) for PersonDocument under "$value": the element named by
\* the variant, holding the string.
ser_PersonDocument(document) == [ tag |-> document.kind, text |-> document.value ]

\* derive(Deserialize) for PersonDocument: CNPJ, then CPF, else an error.
de_PersonDocument(el) ==
    IF el.tag \in {"CNPJ", "CPF"}
      THEN Ok([ kind |-> el.tag, value |-> el.text ])
      ELSE Err("unknown variant")

\* impl Serialize for TaxableAddress
ser_TaxableAddress(ta) ==
    [ xLgr |-> ta.address.line_1,
      xCpl |-> ta.address.line_2,
      nro |-> ta.address.number,
      xBairro |-> ta.address.neighborhood,
      cMun |-> to_string(ta.address.city.code),
      xMun |-> ta.address.city.name,
      UF |-> StateAcronym[ta.address.state],
      CEP |-> ta.address.zip_code,
      fone |-> ta.address.telephone,
      xPais |-> "Brasil",
      cPais |-> to_string(1058),
      IE |-> ta.ie ]

\* impl Deserialize for TaxableAddress
de_TaxableAddress(el) ==
    LET c_mun == parse_u32(el.cMun)
        state == from_acronym(el.UF)
    IN  IF ~c_mun.ok THEN c_mun
        ELSE IF ~state.ok THEN state
        ELSE Ok([ address |-> [ line_1 |-> el.xLgr, line_2 |-> el.xCpl,
                                number |-> el.nro, neighborhood |-> el.xBairro,
                                city |-> [ code |-> c_mun.val, name |-> el.xMun ],
                                state |-> state.val, zip_code |-> el.CEP,
                                telephone |-> el.fone ],
                  ie |-> el.IE ])

\* derive(Serialize) for Issuer
ser_Issuer(issuer) ==
    [ document |-> ser_PersonDocument(issuer.document),
      xNome |-> issuer.name,
      xFant |-> issuer.trade_name,
      enderEmit |-> ser_TaxableAddress(issuer.address) ]

\* derive(Deserialize) for Issuer
de_Issuer(el) ==
    LET document == de_PersonDocument(el.document)
        address == de_TaxableAddress(el.enderEmit)
    IN  IF ~document.ok THEN document
        ELSE IF ~address.ok THEN address
        ELSE Ok([ document |-> document.val, name |-> el.xNome,
                  trade_name |-> el.xFant, address |-> address.val ])

\* A Vec of decoded elements: Ok of the values, or the first failure.
de_all(results) ==
    IF ~first_failure(results).ok THEN first_failure(results)
    ELSE Ok([ i \in 1 .. Len(results) |-> results[i].val ])

\* derive(Serialize) for Authorized: its documents, each as its own element.
ser_Authorized(authorized) ==
    [ i \in 1 .. Len(authorized.documents) |-> ser_PersonDocument(authorized.documents[i]) ]

\* derive(Deserialize) for Authorized
de_Authorized(els) ==
    LET documents == de_all([ i \in 1 .. Len(els) |-> de_PersonDocument(els[i]) ])
    IN  IF documents.ok THEN Ok([ documents |-> documents.val ]) ELSE documents

\* impl Serialize for Transport
ser_Transport(transport) == [ modFrete |-> ser_code(TransportTypeCode, transport.type) ]

\* impl Deserialize for Transport
de_Transport(el) ==
    LET type == de_code(TransportTypeCode, el.modFrete)
    IN  IF type.ok THEN Ok([ type |-> type.val ]) ELSE type

\* impl Serialize for PaymentType without left_pad: the code as a bare integer.
ser_PaymentType_bare(type) == to_string(PaymentTypeCode[type])

\* impl Serialize for PaymentType: the code left-padded to two characters.
ser_PaymentType(type) == left_pad(to_string(PaymentTypeCode[type]), 2, 0)

\* impl Deserialize for PaymentType
de_PaymentType(text) == de_code(PaymentTypeCode, text)

\* derive(Serialize) for Payments / Payment
ser_Payments(payments) ==
    [ i \in 1 .. Len(payments) |->
        [ tPag |-> ser_PaymentType(payments[i].type), vPag |-> ser_F64(payments[i].value) ] ]

de_Payment(el) ==
    LET type == de_PaymentType(el.tPag)
        value == de_F64(el.vPag)
    IN  IF ~type.ok THEN type
        ELSE IF ~value.ok THEN value
        ELSE Ok([ type |-> type.val, value |-> value.val ])

\* derive(Deserialize) for Payments / Payment
de_Payments(els) == de_all([ i \in 1 .. Len(els) |-> de_Payment(els[i]) ])

\* The fields of TotalICMS and their elements, in declaration order.
TotalICMSFields ==
    << <<"base", "vBC">>, <<"value", "vICMS">>, <<"unburdened", "vICMSDeson">>,
       <<"fcp_value", "vFCP">>, <<"base_tributary_substitution", "vBCST">>,
       <<"total_tributary_substitution", "vST">>,
       <<"fcp_value_tributary_substitution", "vFCPST">>,
       <<"retained_fcp_value_tributary_substitution", "vFCPSTRet">>,
       <<"total_products", "vProd">>, <<"freight", "vFrete">>, <<"insurance", "vSeg">>,
       <<"discount", "vDesc">>, <<"import_tax", "vII">>, <<"industrial_tax", "vIPI">>,
       <<"refunded_industrial_tax", "vIPIDevol">>, <<"pis_value", "vPIS">>,
       <<"cofins_value", "vCOFINS">>, <<"other", "vOutro">>, <<"total", "vNF">> >>

TotalICMSField(element) ==
    (CHOOSE i \in 1 .. Len(TotalICMSFields) : TotalICMSFields[i][2] = element)

TotalICMSElement(fld) ==
    (CHOOSE i \in 1 .. Len(TotalICMSFields) : TotalICMSFields[i][1] = fld)

\* derive(Serialize) for Total / TotalICMS: every component through F64.
ser_Total(total) ==
    [ ICMSTot |->
        [ element \in { TotalICMSFields[i][2] : i \in 1 .. Len(TotalICMSFields) } |->
            ser_F64(total.icms[TotalICMSFields[TotalICMSField(element)][1]]) ] ]

\* derive(Deserialize) for Total / TotalICMS
de_Total(el) ==
    LET parts == [ i \in 1 .. Len(TotalICMSFields) |->
                     de_F64(el.ICMSTot[TotalICMSFields[i][2]]) ]
    IN  IF ~first_failure(parts).ok THEN first_failure(parts)
        ELSE Ok([ icms |->
                    [ fld \in { TotalICMSFields[i][1] : i \in 1 .. Len(TotalICMSFields) } |->
                        parts[TotalICMSElement(fld)].val ] ])

----------------------------------------------------------------------------
(* Codec: Item (prod), Tax (imposto), Detail (det), Info (infNFe) *)

\* "SEM GTIN", written for an item without GTIN.
SEM_GTIN == "SEM GTIN"

\* format!("{:.2}", total_value / quantity); a division by zero prints "inf" or "NaN".
ser_unit_value(total_value, quantity) ==
    IF quantity = 0
      THEN [ int |-> <<NonDigit>>, frac |-> <<>> ]
      ELSE LET hundredths == (100 * total_value + quantity \div 2) \div quantity
           IN  [ int |-> to_string(hundredths \div 100),
                 frac |-> left_pad(to_string(hundredths % 100), 2, 0) ]

\* impl Serialize for Item
ser_Item(item) ==
    LET gtin == IF item.gtin = None THEN SEM_GTIN ELSE item.gtin.some
    IN  [ cProd |-> item.code,
          cEAN |-> Some(gtin),
          xProd |-> item.description,
          NCM |-> to_string(item.ncm),
          CFOP |-> to_string(item.cfop),
          uCom |-> item.unit,
          qCom |-> format_fixed(item.quantity, 4),
          vUnCom |-> ser_unit_value(item.total_value, item.quantity),
          vProd |-> format_fixed(item.total_value, 2),
          cEANTrib |-> gtin,
          uTrib |-> item.tribute_unit,
          qTrib |-> format_fixed(item.tribute_quantity, 4),
          vUnTrib |-> format_fixed(item.tribute_unit_value, 2),
          vDesc |-> IF item.discount_value = None THEN None
                    ELSE Some(format_fixed(item.discount_value.some, 4)),
          vOutro |-> IF item.other_value = None THEN None
                     ELSE Some(format_fixed(item.other_value.some, 4)),
          indTot |-> IF item.included THEN to_string(1) ELSE to_string(0) ]

\* impl Deserialize for Item
de_Item(el) ==
    LET ncm == parse_u32(el.NCM)
        cfop == parse_u32(el.CFOP)
        ind_tot == parse_u8(el.indTot)
        quantity == parse_f64(el.qCom)
        total_value == parse_f64(el.vProd)
        tribute_quantity == parse_f64(el.qTrib)
        tribute_unit_value == parse_f64(el.vUnTrib)
        discount_value ==
            IF el.vDesc = None THEN Ok(None)
            ELSE LET v == parse_f64(el.vDesc.some) IN IF v.ok THEN Ok(Some(v.val)) ELSE v
        other_value ==
            IF el.vOutro = None THEN Ok(None)
            ELSE LET v == parse_f64(el.vOutro.some) IN IF v.ok THEN Ok(Some(v.val)) ELSE v
        included ==
            IF ~ind_tot.ok THEN ind_tot
            ELSE IF ind_tot.val = 0 THEN Ok(FALSE)
            ELSE IF ind_tot.val = 1 THEN Ok(TRUE)
            ELSE Err("Invalid ind_tot value")
        failure == first_failure(<< ncm, cfop, ind_tot, quantity, total_value,
                                    tribute_quantity, tribute_unit_value, discount_value,
                                    other_value, included >>)
    IN  IF ~failure.ok THEN failure
        ELSE Ok([ code |-> el.cProd, gtin |-> el.cEAN, description |-> el.xProd,
                  ncm |-> ncm.val, cfop |-> cfop.val, unit |-> el.uCom,
                  quantity |-> quantity.val, total_value |-> total_value.val,
                  tribute_unit |-> el.uTrib, tribute_quantity |-> tribute_quantity.val,
                  tribute_unit_value |-> tribute_unit_value.val,
                  discount_value |-> discount_value.val,
                  other_value |-> other_value.val, included |-> included.val ])

\* impl From<u8> for Origin / CSOSN: the variant, or panic!("Invalid .. value").
from_u8(table, value) ==
    IF try_from(table, value).ok THEN try_from(table, value) ELSE Panic("From<u8>")

\* serde(from = "u8") with a From<u8> that panics on an unknown code (Origin, CSOSN)
de_from_u8(table, text) ==
    LET n == parse_u8(text)
    IN  IF ~n.ok THEN n
        ELSE from_u8(table, n.val)

\* derive(Serialize) for Tax, impl Serialize for ICMS, derive for ICMSSN102
ser_Tax(tax) ==
    [ ICMS |-> [ ICMSSN102 |-> Some([ orig |-> ser_code(OriginCode, tax.icms.data.origin),
                                      CSOSN |-> ser_code(CSOSNCode, tax.icms.data.csosn) ]) ] ]

\* derive(Deserialize) for Tax, impl Deserialize for ICMS, derive for ICMSSN102
de_Tax(el) ==
    IF el.ICMS.ICMSSN102 = None THEN Err("Unknown ICMS variant")
    ELSE LET origin == de_from_u8(OriginCode, el.ICMS.ICMSSN102.some.orig)
             csosn == de_from_u8(CSOSNCode, el.ICMS.ICMSSN102.some.CSOSN)
         IN  IF ~origin.ok THEN origin
             ELSE IF ~csosn.ok THEN csosn
             ELSE Ok([ icms |-> [ variant |-> "ICMSSN102",
                                  data |-> [ origin |-> origin.val, csosn |-> csosn.val ] ] ])

\* derive(Deserialize) for Detail; the nItem attribute is not read.
de_Detail(el) ==
    LET item == de_Item(el.prod)
        tax == de_Tax(el.imposto)
    IN  IF ~item.ok THEN item
        ELSE IF ~tax.ok THEN tax
        ELSE Ok([ item |-> item.val, tax |-> tax.val ])

\* impl Serialize for Info numbering the det elements from 0 (index, not index + 1)
ser_Info_doc_from_zero(i) ==
    [ versao |-> "4.00",
      Id |-> id(i.identification, i.issuer),
      ide |-> ser_Identification(i.identification),
      emit |-> ser_Issuer(i.issuer),
      autXML |-> IF i.authorized = None THEN None
                 ELSE Some(ser_Authorized(i.authorized.some)),
      total |-> ser_Total(i.total),
      pag |-> ser_Payments(i.payments),
      transp |-> ser_Transport(i.transport),
      det |-> [ k \in 1 .. Len(i.details) |->
                  [ nItem |-> k - 1, prod |-> ser_Item(i.details[k].item),
                    imposto |-> ser_Tax(i.details[k].tax) ] ] ]

\* impl Serialize for Info, where self.id() returns.
ser_Info_doc(i) ==
    [ versao |-> "4.00",
      Id |-> id(i.identification, i.issuer),
      ide |-> ser_Identification(i.identification),
      emit |-> ser_Issuer(i.issuer),
      autXML |-> IF i.authorized = None THEN None
                 ELSE Some(ser_Authorized(i.authorized.some)),
      total |-> ser_Total(i.total),
      pag |-> ser_Payments(i.payments),
      transp |-> ser_Transport(i.transport),
      det |-> [ k \in 1 .. Len(i.details) |->
                  [ nItem |-> k, prod |-> ser_Item(i.details[k].item),
                    imposto |-> ser_Tax(i.details[k].tax) ] ] ]

\* impl Serialize for Info: the document, or the panic of self.id().
ser_Info(i) ==
    IF id_panics(i.identification, i.issuer) THEN Panic("id") ELSE Ok(ser_Info_doc(i))

\* impl Deserialize for Info
de_Info(doc) ==
    LET identification == de_Identification(doc.ide)
        issuer == de_Issuer(doc.emit)
        authorized ==
            IF doc.autXML = None THEN Ok(None)
            ELSE LET a == de_Authorized(doc.autXML.some)
                 IN  IF a.ok THEN Ok(Some(a.val)) ELSE a
        total == de_Total(doc.total)
        payments == de_Payments(doc.pag)
        transport == de_Transport(doc.transp)
        details == de_all([ k \in 1 .. Len(doc.det) |-> de_Detail(doc.det[k]) ])
        helper == first_failure(<< identification, issuer, authorized, total, payments,
                                   transport, details >>)
        decoded_info ==
            [ identification |-> identification.val, issuer |-> issuer.val,
              details |-> details.val, authorized |-> authorized.val,
              total |-> total.val, transport |-> transport.val,
              payments |-> payments.val ]
    IN  IF ~helper.ok THEN helper
        ELSE IF doc.versao # "4.00" THEN Err("Unsupported version")
        ELSE IF id_panics(decoded_info.identification, decoded_info.issuer)
          THEN Panic("id")
        ELSE IF id(decoded_info.identification, decoded_info.issuer) # doc.Id
          THEN Err("ID mismatch")
        ELSE Ok(decoded_info)

----------------------------------------------------------------------------
(* The operations of one build attempt *)

\* The host sets the configuration.
SetConfig ==
    \E issuer \in Issuers :
        set_config([ issuer |-> issuer,
                     pkcs12_config |-> [ path |-> "tests/certificates/cert.pfx",
                                         password |-> "12345678" ] ])

\* A caller starts a build attempt; what the previous attempt left is dropped.
Start ==
    /\ builder = None
    /\ \E identification \in Identifications, payments \in PaymentsSamples :
         LET r == new(identification, payments)
         IN  /\ builder' = IF r.ok THEN r.val ELSE None
             /\ last_op' = IF r.ok THEN "new" ELSE "none"
             /\ result' = [ op |-> "new", args |-> <<identification, payments>>,
                            outcome |-> r ]
    /\ info' = None
    /\ xml' = None
    /\ decoded' = None
    /\ tampers' = 0
    /\ UNCHANGED <<CONFIG, poisoned, key_in, key_edits, key_out>>
    /\ UNCHANGED <<threads, lock, history, probe>>

AddDetail ==
    /\ builder # None
    /\ Len(builder.details) < MaxDetails
    /\ \E detail \in Details : builder' = add_detail(builder, detail)
    /\ last_op' = "add_detail"
    /\ UNCHANGED <<CONFIG, poisoned, result, info, xml, decoded, tampers>>
    /\ UNCHANGED <<key_in, key_edits, key_out>>
    /\ UNCHANGED <<threads, lock, history, probe>>

SetAuthorized ==
    /\ builder # None
    /\ \E authorized \in Authorizeds : builder' = set_authorized(builder, authorized)
    /\ last_op' = "set_authorized"
    /\ UNCHANGED <<CONFIG, poisoned, result, info, xml, decoded, tampers>>
    /\ UNCHANGED <<key_in, key_edits, key_out>>
    /\ UNCHANGED <<threads, lock, history, probe>>

SetTransport ==
    /\ builder # None
    /\ \E transport \in Transports : builder' = set_transport(builder, transport)
    /\ last_op' = "set_transport"
    /\ UNCHANGED <<CONFIG, poisoned, result, info, xml, decoded, tampers>>
    /\ UNCHANGED <<key_in, key_edits, key_out>>
    /\ UNCHANGED <<threads, lock, history, probe>>

\* build(&self): the builder outlives the call.
Build_by_reference ==
    /\ builder # None
    /\ LET r == build(builder)
       IN  /\ result' = [ op |-> "build", args |-> <<builder>>, outcome |-> r ]
           /\ info' = IF r.kind = "Ok" THEN r.info ELSE None
    /\ last_op' = "build"
    /\ UNCHANGED <<CONFIG, poisoned, builder, xml, decoded, tampers, key_in, key_edits, key_out>>
    /\ UNCHANGED <<threads, lock, history, probe>>

\* build(self) takes the builder by value: whatever the outcome, it is gone.
Build ==
    /\ builder # None
    /\ LET r == build(builder)
       IN  /\ result' = [ op |-> "build", args |-> <<builder>>, outcome |-> r ]
           /\ info' = IF r.kind = "Ok" THEN r.info ELSE None
    /\ builder' = None
    /\ last_op' = "build"
    /\ UNCHANGED <<CONFIG, poisoned, xml, decoded, tampers, key_in, key_edits, key_out>>
    /\ UNCHANGED <<threads, lock, history, probe>>

\* The Info of the last successful build is encoded.
Encode ==
    /\ info # None
    /\ xml = None
    /\ xml' = ser_Info(info)
    /\ tampers' = 0
    /\ UNCHANGED <<CONFIG, poisoned, builder, last_op, result, info, decoded>>
    /\ UNCHANGED <<key_in, key_edits, key_out>>
    /\ UNCHANGED <<threads, lock, history, probe>>

\* How many parts of one document are replaced before it is decoded.
MaxTampers == 1

\* The documents that differ from doc in one part: the Id attribute, the
\* versao attribute, the month of dhEmi, cDV, indPres, nNF, or vNF.
tampered(doc) ==
    { [ doc EXCEPT !.Id = [ @ EXCEPT ![Len(@)] = (@ + 1) % 10 ] ],
      [ doc EXCEPT !.versao = "3.10" ],
      [ doc EXCEPT !.ide.dhEmi.mm = <<0, 1>> ],
      [ doc EXCEPT !.ide.cDV = to_string((parse_digits(@, 0) + 1) % 10) ],
      [ doc EXCEPT !.ide.indPres = to_string(6) ],
      [ doc EXCEPT !.ide.nNF = to_string(54321) ],
      [ doc EXCEPT !.total.ICMSTot.vNF = ser_F64(amount(100)) ] } \ { doc }

\* The document is not the encoder's output any more: it reaches the decoder
\* from outside with one part different.
Tamper ==
    /\ xml # None
    /\ xml.ok
    /\ decoded = None
    /\ tampers < MaxTampers
    /\ \E doc \in tampered(xml.val) : xml' = Ok(doc)
    /\ tampers' = tampers + 1
    /\ UNCHANGED <<CONFIG, poisoned, builder, last_op, result, info, decoded>>
    /\ UNCHANGED <<key_in, key_edits, key_out>>
    /\ UNCHANGED <<threads, lock, history, probe>>

\* The document is decoded.
Decode ==
    /\ xml # None
    /\ xml.ok
    /\ decoded = None
    /\ decoded' = de_Info(xml.val)
    /\ UNCHANGED <<CONFIG, poisoned, builder, last_op, result, info, xml, tampers>>
    /\ UNCHANGED <<key_in, key_edits, key_out>>
    /\ UNCHANGED <<threads, lock, history, probe>>

----------------------------------------------------------------------------
(* The Config store called from several threads (config.rs) *)

\* The threads of the host that call the store.
NumThreads == 2

Threads == 1 .. NumThreads

\* The number of store calls the threads make together.
MaxCalls == 3

\* A thread that is in no call and has made none.
idle ==
    [ pc |-> "idle", op |-> "none", arg |-> None, start |-> None, read |-> None,
      poisoned |-> FALSE, ret |-> None ]

\* The Config values the threads give to set_config: the fixture issuer and the
\* person with a CPF.
Configs ==
    { [ issuer |-> issuer,
        pkcs12_config |-> [ path |-> "path/to/cert.p12", password |-> "password" ] ] :
      issuer \in { i \in Issuers : \A k \in 1 .. Len(i.document.value) :
                                      IsDigit(i.document.value[k]) } }

\* What a call notes of the store's past when it starts and when it reads.
snapshot ==
    [ effects |-> history.effects, returned |-> history.returned, last |-> history.last ]

\* The calls a thread makes: set_config(config), get_issuer(), is_set().
StoreCalls ==
    { [ op |-> "set_config", arg |-> config, pc |-> "write" ] : config \in Configs }
      \cup { [ op |-> "get_issuer", arg |-> None, pc |-> "get_read" ],
             [ op |-> "is_set", arg |-> None, pc |-> "is_set_read" ] }

\* A write lock that waits for writers only.
write_available_among_writers == lock.writers = {}

\* RwLock::write returns once no guard of either kind is held.
write_available == lock.writers = {} /\ lock.readers = {}

\* RwLock::read returns once no write guard is held.
read_available == lock.writers = {}

\* An assignment that keeps a value already stored (set once).
assign_config_once(config) == IF CONFIG # None THEN CONFIG ELSE config

\* *config_lock = Some(config): the value CONFIG holds after set_config's assignment.
assign_config(config) == config

\* is_set answering is_none().
is_set_inverted ==
    IF lock_fails THEN Panic("CONFIG lock is poisoned") ELSE Ok(CONFIG = None)

\* config::is_set: expect() panics on a poisoned lock, else config_lock.is_some().
is_set == IF lock_fails THEN Panic("CONFIG lock is poisoned") ELSE Ok(CONFIG # None)

\* The thread leaves its call with the value ret.
returned(t, ret) == [ threads[t] EXCEPT !.pc = "idle", !.ret = ret, !.read = snapshot ]

\* A thread calls set_config, get_issuer or is_set.
CallStore ==
    /\ history.calls < MaxCalls
    /\ \E t \in Threads, call \in StoreCalls :
         /\ threads[t].pc = "idle"
         /\ threads' = [ threads EXCEPT ![t] =
                           [ pc |-> call.pc, op |-> call.op, arg |-> call.arg,
                             start |-> snapshot, read |-> None, poisoned |-> FALSE,
                             ret |-> None ] ]
    /\ history' = [ history EXCEPT !.calls = @ + 1 ]
    /\ UNCHANGED <<CONFIG, poisoned, lock>>
    /\ UNCHANGED <<builder, last_op, result, info, xml, decoded, tampers>>
    /\ UNCHANGED <<key_in, key_edits, key_out, probe>>

\* set_config, CONFIG.write().map_err(|_| ConfigError::Locked)?
WriteLock ==
    /\ \E t \in Threads :
         /\ threads[t].pc = "write"
         /\ write_available
         /\ IF lock_fails
              THEN /\ threads' = [ threads EXCEPT ![t] =
                                     [ returned(t, Err("Locked")) EXCEPT !.poisoned = TRUE ] ]
                   /\ lock' = lock
              ELSE /\ threads' = [ threads EXCEPT ![t].pc = "assign" ]
                   /\ lock' = [ lock EXCEPT !.writers = @ \cup {t} ]
    /\ UNCHANGED <<CONFIG, poisoned, history>>
    /\ UNCHANGED <<builder, last_op, result, info, xml, decoded, tampers>>
    /\ UNCHANGED <<key_in, key_edits, key_out, probe>>

\* set_config, *config_lock = Some(config)
AssignConfig ==
    /\ \E t \in Threads :
         /\ threads[t].pc = "assign"
         /\ CONFIG' = assign_config(threads[t].arg)
         /\ threads' = [ threads EXCEPT ![t].pc = "set_return" ]
    /\ history' = [ history EXCEPT !.effects = @ + 1 ]
    /\ UNCHANGED <<poisoned, lock>>
    /\ UNCHANGED <<builder, last_op, result, info, xml, decoded, tampers>>
    /\ UNCHANGED <<key_in, key_edits, key_out, probe>>

\* set_config, Ok(()): the write guard is dropped as the call returns.
SetReturn ==
    /\ \E t \in Threads :
         /\ threads[t].pc = "set_return"
         /\ history' = [ history EXCEPT !.returned = @ + 1, !.last = threads[t].arg,
                                        !.issuers = @ \cup { threads[t].arg.issuer } ]
         /\ threads' = [ threads EXCEPT ![t] = returned(t, Ok("unit")) ]
         /\ lock' = [ lock EXCEPT !.writers = @ \ {t} ]
    /\ UNCHANGED <<CONFIG, poisoned>>
    /\ UNCHANGED <<builder, last_op, result, info, xml, decoded, tampers>>
    /\ UNCHANGED <<key_in, key_edits, key_out, probe>>

\* get_issuer, CONFIG.read().map_err(|_| ConfigError::Locked)?
GetReadLock ==
    /\ \E t \in Threads :
         /\ threads[t].pc = "get_read"
         /\ read_available
         /\ IF lock_fails
              THEN /\ threads' = [ threads EXCEPT ![t] =
                                     [ returned(t, get_issuer) EXCEPT !.poisoned = TRUE ] ]
                   /\ lock' = lock
              ELSE /\ threads' = [ threads EXCEPT ![t].pc = "get_value" ]
                   /\ lock' = [ lock EXCEPT !.readers = @ \cup {t} ]
    /\ UNCHANGED <<CONFIG, poisoned, history>>
    /\ UNCHANGED <<builder, last_op, result, info, xml, decoded, tampers>>
    /\ UNCHANGED <<key_in, key_edits, key_out, probe>>

\* get_issuer, the clone of the issuer or NotInitialized; the read guard is
\* dropped as the call returns.
GetReturn ==
    /\ \E t \in Threads :
         /\ threads[t].pc = "get_value"
         /\ threads' = [ threads EXCEPT ![t] = returned(t, get_issuer) ]
         /\ lock' = [ lock EXCEPT !.readers = @ \ {t} ]
    /\ UNCHANGED <<CONFIG, poisoned, history>>
    /\ UNCHANGED <<builder, last_op, result, info, xml, decoded, tampers>>
    /\ UNCHANGED <<key_in, key_edits, key_out, probe>>

\* is_set, CONFIG.read().expect("CONFIG lock is poisoned"): a panic ends the thread.
IsSetReadLock ==
    /\ \E t \in Threads :
         /\ threads[t].pc = "is_set_read"
         /\ read_available
         /\ IF lock_fails
              THEN /\ threads' = [ threads EXCEPT ![t] =
                                     [ returned(t, is_set) EXCEPT !.poisoned = TRUE,
                                                                  !.pc = "panicked" ] ]
                   /\ lock' = lock
              ELSE /\ threads' = [ threads EXCEPT ![t].pc = "is_set_value" ]
                   /\ lock' = [ lock EXCEPT !.readers = @ \cup {t} ]
    /\ UNCHANGED <<CONFIG, poisoned, history>>
    /\ UNCHANGED <<builder, last_op, result, info, xml, decoded, tampers>>
    /\ UNCHANGED <<key_in, key_edits, key_out, probe>>

\* is_set, config_lock.is_some(); the read guard is dropped as the call returns.
IsSetReturn ==
    /\ \E t \in Threads :
         /\ threads[t].pc = "is_set_value"
         /\ threads' = [ threads EXCEPT ![t] = returned(t, is_set) ]
         /\ lock' = [ lock EXCEPT !.readers = @ \ {t} ]
    /\ UNCHANGED <<CONFIG, poisoned, history>>
    /\ UNCHANGED <<builder, last_op, result, info, xml, decoded, tampers>>
    /\ UNCHANGED <<key_in, key_edits, key_out, probe>>

\* A failure while the lock is held for writing: the thread unwinds, its guard
\* is dropped and marks the lock poisoned. (No statement of set_config fails
\* there by itself; the failure comes from outside.)
WriterPanics ==
    /\ \E t \in Threads :
         /\ threads[t].pc = "assign"
         /\ threads' = [ threads EXCEPT ![t].pc = "panicked" ]
         /\ lock' = [ lock EXCEPT !.writers = @ \ {t} ]
    /\ poisoned' = TRUE
    /\ UNCHANGED <<CONFIG, history>>
    /\ UNCHANGED <<builder, last_op, result, info, xml, decoded, tampers>>
    /\ UNCHANGED <<key_in, key_edits, key_out, probe>>

----------------------------------------------------------------------------
(* The conversions from an integer code, each on its own (enums.rs, states.rs) *)

\* The largest u8.
U8Max == 255

\* The enumerated code sets: their codes, and whether the conversion from u8 is
\* the fallible TryFrom<u8> or the From<u8> of Origin and CSOSN.
CodeSets ==
    [ State |-> [ codes |-> StateCode, fallible |-> TRUE ],
      Model |-> [ codes |-> ModelCode, fallible |-> TRUE ],
      Operation |-> [ codes |-> OperationCode, fallible |-> TRUE ],
      DestinationTarget |-> [ codes |-> DestinationTargetCode, fallible |-> TRUE ],
      DanfeGeneration |-> [ codes |-> DanfeGenerationCode, fallible |-> TRUE ],
      EmissionType |-> [ codes |-> EmissionTypeCode, fallible |-> TRUE ],
      Environment |-> [ codes |-> EnvironmentCode, fallible |-> TRUE ],
      Finality |-> [ codes |-> FinalityCode, fallible |-> TRUE ],
      Presence |-> [ codes |-> PresenceCode, fallible |-> TRUE ],
      Intermediator |-> [ codes |-> IntermediatorCode, fallible |-> TRUE ],
      TransportType |-> [ codes |-> TransportTypeCode, fallible |-> TRUE ],
      PaymentType |-> [ codes |-> PaymentTypeCode, fallible |-> TRUE ],
      Origin |-> [ codes |-> OriginCode, fallible |-> FALSE ],
      CSOSN |-> [ codes |-> CSOSNCode, fallible |-> FALSE ] ]

\* The conversion of the integer value into the code set named set.
from_code(set, value) ==
    IF CodeSets[set].fallible
      THEN try_from(CodeSets[set].codes, value)
      ELSE from_u8(CodeSets[set].codes, value)

\* An integer is converted into a code set.
ConvertCode ==
    /\ probe = None
    /\ \E set \in DOMAIN CodeSets, value \in 0 .. U8Max :
         probe' = [ fn |-> "from_code", set |-> set, value |-> value,
                    out |-> from_code(set, value) ]
    /\ UNCHANGED <<CONFIG, poisoned, builder, last_op, result, info, xml, decoded, tampers>>
    /\ UNCHANGED <<key_in, key_edits, key_out, threads, lock, history>>

----------------------------------------------------------------------------
(* Documents that reach the decoder from outside *)

\* The builders whose Info the sample documents encode: the fixture with two
\* details, authorized list and transport; a person's invoice of one item
\* with discount and other charges; invoice 7 of series 255 with one item.
SampleBuilders ==
    { [ identification |-> setup_identification, issuer |-> setup_issuer,
        payments |-> setup_payments,
        details |-> << [ item |-> setup_item, tax |-> setup_tax ],
                       [ item |-> setup_item, tax |-> setup_tax ] >>,
        authorized |-> Some(setup_authorized), transport |-> Some([ type |-> "FOB" ]) ],
      [ identification |-> [ setup_identification EXCEPT !.presence = None,
                                                         !.consumer = FALSE ],
        issuer |-> CHOOSE i \in Issuers : i.document.kind = "CPF",
        payments |-> << [ type |-> "PIX", value |-> amount(10000) ] >>,
        details |-> << CHOOSE d \in Details : d.item.gtin = None >>,
        authorized |-> None, transport |-> None ],
      [ identification |-> [ setup_identification EXCEPT !.series = 255, !.number = 7 ],
        issuer |-> setup_issuer,
        payments |-> << [ type |-> "PIX", value |-> amount(5697) ] >>,
        details |-> << [ item |-> setup_item, tax |-> setup_tax ] >>,
        authorized |-> None, transport |-> Some([ type |-> "FOB" ]) ] }

\* The documents that differ from doc in one field whose content is outside
\* the field's allowed set: indFinal 2, indPres 7, a month 13, a letter in nNF,
\* tpAmb 3; tPag 99 and a letter in vPag; indTot 2, orig 9 and CSOSN 0 in the
\* first det.
corrupted(doc) ==
    { [ doc EXCEPT !.ide.indFinal = to_string(2) ],
      [ doc EXCEPT !.ide.indPres = to_string(7) ],
      [ doc EXCEPT !.ide.dhEmi.mm = <<1, 3>> ],
      [ doc EXCEPT !.ide.nNF = <<1, NonDigit, 3>> ],
      [ doc EXCEPT !.ide.tpAmb = to_string(3) ],
      [ doc EXCEPT !.pag[1].tPag = to_string(99) ],
      [ doc EXCEPT !.pag[1].vPag.int = <<NonDigit>> ],
      [ doc EXCEPT !.det[1].prod.indTot = to_string(2) ],
      [ doc EXCEPT !.det[1].imposto.ICMS.ICMSSN102 =
                     Some([ @.some EXCEPT !.orig = to_string(9) ]) ],
      [ doc EXCEPT !.det[1].imposto.ICMS.ICMSSN102 =
                     Some([ @.some EXCEPT !.CSOSN = to_string(0) ]) ] }

\* A document reaches the decoder with one field outside its allowed set.
Corrupt ==
    /\ xml # None
    /\ xml.ok
    /\ decoded = None
    /\ tampers < MaxTampers
    /\ \E doc \in corrupted(xml.val) : xml' = Ok(doc)
    /\ tampers' = tampers + 1
    /\ UNCHANGED <<CONFIG, poisoned, builder, last_op, result, info, decoded>>
    /\ UNCHANGED <<key_in, key_edits, key_out, threads, lock, history, probe>>

----------------------------------------------------------------------------
(* The key of a decoded Identification and the zone of the process *)

\* The days of a month of the proleptic Gregorian calendar.
DaysIn(year, month) ==
    IF month \in {4, 6, 9, 11} THEN 30
    ELSE IF month # 2 THEN 31
    ELSE IF year % 4 = 0 /\ (year % 100 # 0 \/ year % 400 = 0) THEN 29 ELSE 28

\* DateTime::with_timezone for a zone of whole hours: the same instant with
\* the fields of the other offset.
with_timezone(dt, zone) ==
    LET hour == dt.hour + zone - dt.offset
        back == hour < 0
        forth == hour >= 24
        first == dt.day = 1
        last == dt.day = DaysIn(dt.year, dt.month)
        before_month == IF dt.month = 1 THEN 12 ELSE dt.month - 1
        before_year == IF dt.month = 1 THEN dt.year - 1 ELSE dt.year
    IN  IF back
          THEN [ year |-> IF first THEN before_year ELSE dt.year,
                 month |-> IF first THEN before_month ELSE dt.month,
                 day |-> IF first THEN DaysIn(before_year, before_month) ELSE dt.day - 1,
                 hour |-> hour + 24, offset |-> zone ]
          ELSE IF forth
                 THEN [ year |-> IF last /\ dt.month = 12 THEN dt.year + 1 ELSE dt.year,
                        month |-> IF ~last THEN dt.month
                                  ELSE IF dt.month = 12 THEN 1 ELSE dt.month + 1,
                        day |-> IF last THEN 1 ELSE dt.day + 1,
                        hour |-> hour - 24, offset |-> zone ]
                 ELSE [ dt EXCEPT !.hour = hour, !.offset = zone ]

\* impl PartialEq for DateTime<Tz>: two values are equal when they are the
\* same instant, whatever their offsets.
eq_DateTime(a, b) == with_timezone(a, 0) = with_timezone(b, 0)

\* The offsets chrono::Local takes from the environment of the process:
\* Brasilia, Acre, UTC.
Zones == { 0 - 3, 0 - 5, 0 }

\* dhEmi of the documents: the fixture's; the last hour of October, the first
\* hours of November and the last hours of November in Brasilia.
Timestamps ==
    { [ year |-> 2023, month |-> 10, day |-> 5, hour |-> 14, offset |-> 0 - 3 ],
      [ year |-> 2023, month |-> 10, day |-> 31, hour |-> 23, offset |-> 0 - 3 ],
      [ year |-> 2023, month |-> 11, day |-> 1, hour |-> 1, offset |-> 0 - 3 ],
      [ year |-> 2023, month |-> 11, day |-> 30, hour |-> 22, offset |-> 0 - 3 ] }

\* How many Identification values are decoded and have their key generated.
MaxRuns == 2

\* The Identification decoded from the fixture's document with dhEmi replaced:
\* emission_date is parse_from_rfc3339(dhEmi).with_timezone(&Local).
decoded_identification(dhEmi, zone) ==
    LET local == with_timezone(dhEmi, zone)
    IN  [ setup_identification EXCEPT
            !.emission_date = [ year |-> local.year, month |-> local.month,
                                rest |-> "zoned" ] ]

\* Info::id of the Info holding the identification and the fixture's issuer.
key_of(identification) ==
    IF id_panics(identification, setup_issuer) THEN Panic("id")
    ELSE Ok(id(identification, setup_issuer))

\* The zone of the process changes (the TZ of its environment).
SetZone ==
    /\ probe # None
    /\ probe.fn = "key"
    /\ \E zone \in Zones \ { probe.TZ } : probe' = [ probe EXCEPT !.TZ = zone ]
    /\ UNCHANGED <<CONFIG, poisoned, builder, last_op, result, info, xml, decoded, tampers>>
    /\ UNCHANGED <<key_in, key_edits, key_out, threads, lock, history>>

\* An Identification is decoded in the zone of the process and id() is called
\* on its Info.
KeyOfDecoded ==
    /\ probe # None
    /\ probe.fn = "key"
    /\ Len(probe.runs) < MaxRuns
    /\ \E dhEmi \in Timestamps :
         probe' = [ probe EXCEPT !.runs =
                      Append(@, [ date |-> with_timezone(dhEmi, probe.TZ),
                                  key |-> key_of(decoded_identification(dhEmi, probe.TZ)) ]) ]
    /\ UNCHANGED <<CONFIG, poisoned, builder, last_op, result, info, xml, decoded, tampers>>
    /\ UNCHANGED <<key_in, key_edits, key_out, threads, lock, history>>

----------------------------------------------------------------------------
(* The key generator on its own: verifier_digit over 43-digit strings *)

\* The bare id of the worked example: state 31, 2023-10, CNPJ 12345678000195,
\* model 65, series 1, number 12345, emission type 1, numeric code 12345678.
example_bare_id ==
    << 3, 1, 2, 3, 1, 0, 1, 2, 3, 4, 5, 6, 7, 8, 0, 0, 0, 1, 9, 5, 6, 5, 0, 0, 1,
       0, 0, 0, 0, 1, 2, 3, 4, 5, 1, 1, 2, 3, 4, 5, 6, 7, 8 >>

\* The strings the digits are replaced in.
KeySamples == { example_bare_id, repeat(0, 43), repeat(9, 43) }

\* How many digits of a sample are replaced.
MaxEdits == 1

\* A digit of the string under test is replaced by another digit.
SetDigit ==
    /\ key_edits < MaxEdits
    /\ \E i \in 1 .. Len(key_in), d \in 0 .. 9 :
         /\ key_in[i] # d
         /\ key_in' = [ key_in EXCEPT ![i] = d ]
    /\ key_edits' = key_edits + 1
    /\ key_out' = None
    /\ UNCHANGED <<CONFIG, poisoned, builder, last_op, result, info, xml, decoded, tampers>>
    /\ UNCHANGED <<threads, lock, history, probe>>

\* verifier_digit is called on the string under test.
ComputeDigit ==
    /\ key_out = None
    /\ key_out' = [ id |-> key_in, digit |-> verifier_digit(key_in) ]
    /\ UNCHANGED <<CONFIG, poisoned, builder, last_op, result, info, xml, decoded, tampers>>
    /\ UNCHANGED <<key_in, key_edits>>
    /\ UNCHANGED <<threads, lock, history, probe>>

----------------------------------------------------------------------------
(* The parts of the codec, each on its own *)

\* A PaymentType is serialized and the text is deserialized.
PaymentTypeText ==
    /\ probe = None
    /\ \E type \in DOMAIN PaymentTypeCode :
         probe' = [ fn |-> "tPag", type |-> type, text |-> ser_PaymentType(type),
                    out |-> de_PaymentType(ser_PaymentType(type)) ]
    /\ UNCHANGED <<CONFIG, poisoned, builder, last_op, result, info, xml, decoded, tampers>>
    /\ UNCHANGED <<key_in, key_edits, key_out, threads, lock, history>>

\* The two-character text of a number, or a text with a letter, is deserialized
\* as a PaymentType.
PaymentTypeFromText ==
    /\ probe = None
    /\ \E text \in { left_pad(to_string(n), 2, 0) : n \in 0 .. U8Max } \cup { <<0, NonDigit>> } :
         probe' = [ fn |-> "tPag_text", text |-> text, out |-> de_PaymentType(text) ]
    /\ UNCHANGED <<CONFIG, poisoned, builder, last_op, result, info, xml, decoded, tampers>>
    /\ UNCHANGED <<key_in, key_edits, key_out, threads, lock, history>>

\* tests::setup_info: the Info built from the fixtures.
setup_info == build(CHOOSE b \in SampleBuilders : b.authorized # None).info

RECURSIVE reversed(_)
\* Vec::reverse
reversed(list) == IF list = <<>> THEN <<>> ELSE Append(reversed(Tail(list)), Head(list))

\* The lists of at most MaxDetails details.
DetailLists == UNION { [ 1 .. n -> Details ] : n \in 0 .. MaxDetails }

\* The details of an Info (a pub field) are replaced by a list, and the Info is
\* encoded; the list is reversed, and encoded; its first detail is removed, and
\* encoded.
EncodeDetails ==
    /\ probe = None
    /\ \E details \in DetailLists :
         probe' = [ fn |-> "det", details |-> details,
                    doc |-> ser_Info_doc([ setup_info EXCEPT !.details = details ]),
                    reordered |->
                        ser_Info_doc([ setup_info EXCEPT !.details = reversed(details) ]),
                    shortened |->
                        ser_Info_doc([ setup_info EXCEPT !.details =
                                         IF details = <<>> THEN <<>> ELSE Tail(details) ]) ]
    /\ UNCHANGED <<CONFIG, poisoned, builder, last_op, result, info, xml, decoded, tampers>>
    /\ UNCHANGED <<key_in, key_edits, key_out, threads, lock, history>>

\* The Identification values of the round trip: the fixture with presence
\* absent or any variant, consumer either way, and the exit date, the printing
\* type and the intermediator present or absent.
IdentificationSamples ==
    { [ setup_identification EXCEPT
          !.presence = presence, !.consumer = consumer, !.date = date,
          !.printing_type = printing_type, !.intermediator = intermediator ] :
        presence \in { None } \cup { Some(p) : p \in DOMAIN PresenceCode },
        consumer \in BOOLEAN,
        date \in { None, Some([ year |-> 2023, month |-> 10, rest |-> "06T08:00:00" ]) },
        printing_type \in { None, Some("NFCe") },
        intermediator \in { None, Some("External") } }

\* An Identification is serialized and the element is deserialized.
RoundTripIdentification ==
    /\ probe = None
    /\ \E identification \in IdentificationSamples :
         probe' = [ fn |-> "ide", in |-> identification,
                    out |-> de_Identification(ser_Identification(identification)) ]
    /\ UNCHANGED <<CONFIG, poisoned, builder, last_op, result, info, xml, decoded, tampers>>
    /\ UNCHANGED <<key_in, key_edits, key_out, threads, lock, history>>

\* The Item values of the round trip: the fixture with gtin, discount_value and
\* other_value present or absent, money of two decimals and quantities of up to
\* four (3.0000 and 1.2345).
ItemSamples ==
    { [ setup_item EXCEPT
          !.gtin = gtin, !.discount_value = discount_value, !.other_value = other_value,
          !.quantity = quantity, !.tribute_quantity = quantity, !.included = included ] :
        gtin \in { None, Some("7896235354499") },
        discount_value \in { None, Some(amount(2000)), Some(amount(5)) },
        other_value \in { None, Some(amount(1000)) },
        quantity \in { 3 * Scale, 12345 },
        included \in BOOLEAN }

\* An Item is serialized and the element is deserialized.
RoundTripItem ==
    /\ probe = None
    /\ \E item \in ItemSamples :
         probe' = [ fn |-> "prod", in |-> item, out |-> de_Item(ser_Item(item)) ]
    /\ UNCHANGED <<CONFIG, poisoned, builder, last_op, result, info, xml, decoded, tampers>>
    /\ UNCHANGED <<key_in, key_edits, key_out, threads, lock, history>>

\* SignatureTransforms::transforms: the expected list.
transforms == << "SignatureEnvelopedTransform", "SignatureCanonicalizedTransform" >>

\* Deserialize of one Transform element: the variant whose algorithm the
\* element carries, or an error.
de_SignatureTransform(algorithm) ==
    IF algorithm = "http://www.w3.org/2000/09/xmldsig#enveloped-signature"
      THEN Ok("SignatureEnvelopedTransform")
    ELSE IF algorithm = "http://www.w3.org/TR/2001/REC-xml-c14n-20010315"
      THEN Ok("SignatureCanonicalizedTransform")
    ELSE Err("unknown variant")

\* impl Deserialize for SignatureTransforms accepting the expected transforms
\* in any order.
de_SignatureTransforms_unordered(algorithms) ==
    LET helper == de_all([ k \in 1 .. Len(algorithms) |->
                             de_SignatureTransform(algorithms[k]) ])
    IN  IF ~helper.ok THEN helper
        ELSE IF { helper.val[k] : k \in 1 .. Len(helper.val) }
                  # { transforms[k] : k \in 1 .. Len(transforms) }
          THEN Err("Transforms do not match expected values")
        ELSE Ok("SignatureTransforms")

\* impl Deserialize for SignatureTransforms
de_SignatureTransforms(algorithms) ==
    LET helper == de_all([ k \in 1 .. Len(algorithms) |->
                             de_SignatureTransform(algorithms[k]) ])
    IN  IF ~helper.ok THEN helper
        ELSE IF helper.val # transforms
          THEN Err("Transforms do not match expected values")
        ELSE Ok("SignatureTransforms")

\* How many Transform elements a Transforms element holds.
MaxTransforms == 3

\* The algorithms of the Transform elements: the two expected and another.
Algorithms ==
    { "http://www.w3.org/2000/09/xmldsig#enveloped-signature",
      "http://www.w3.org/TR/2001/REC-xml-c14n-20010315",
      "http://www.w3.org/2000/09/xmldsig#sha1" }

\* An element of a tagged union is deserialized: a person document named CNPJ,
\* CPF, IE or RG; an ICMS with or without the ICMSSN102 child; a Transforms
\* with up to MaxTransforms Transform children.
DecodeTaggedUnion ==
    /\ probe = None
    /\ \/ \E tag \in { "CNPJ", "CPF", "IE", "RG" } :
            probe' = [ fn |-> "union", shape |-> "PersonDocument", tag |-> tag,
                       out |-> de_PersonDocument([ tag |-> tag,
                                                   text |-> setup_issuer.document.value ]) ]
       \/ \E child \in { None, ser_Tax(setup_tax).ICMS.ICMSSN102 } :
            probe' = [ fn |-> "union", shape |-> "ICMS", child |-> child,
                       out |-> de_Tax([ ICMS |-> [ ICMSSN102 |-> child ] ]) ]
       \/ \E algorithms \in UNION { [ 1 .. n -> Algorithms ] : n \in 0 .. MaxTransforms } :
            probe' = [ fn |-> "union", shape |-> "Transforms", algorithms |-> algorithms,
                       out |-> de_SignatureTransforms(algorithms) ]
    /\ UNCHANGED <<CONFIG, poisoned, builder, last_op, result, info, xml, decoded, tampers>>
    /\ UNCHANGED <<key_in, key_edits, key_out, threads, lock, history>>

----------------------------------------------------------------------------
(* Specifications *)

InitPipeline ==
    /\ CONFIG = None
    /\ poisoned = FALSE
    /\ builder = None
    /\ last_op = "none"
    /\ result = None
    /\ info = None
    /\ xml = None
    /\ decoded = None
    /\ tampers = 0
    /\ threads = [ t \in Threads |-> idle ]
    /\ lock = [ writers |-> {}, readers |-> {} ]
    /\ history = [ calls |-> 0, effects |-> 0, returned |-> 0, last |-> None,
                   issuers |-> {} ]
    /\ probe = None

Init ==
    /\ InitPipeline
    /\ key_in = example_bare_id
    /\ key_edits = 0
    /\ key_out = None

Next ==
    \/ SetConfig
    \/ PoisonLock
    \/ Start
    \/ AddDetail
    \/ SetAuthorized
    \/ SetTransport
    \/ Build
    \/ Encode
    \/ Tamper
    \/ Decode

\* The library driven by one caller: configuration, build attempts, codec.
Spec == Init /\ [][Next]_vars

InitKey ==
    /\ InitPipeline
    /\ key_in \in KeySamples
    /\ key_edits = 0
    /\ key_out = None

NextKey ==
    \/ SetDigit
    \/ ComputeDigit

\* The key generator applied to 43-digit strings.
SpecKey == InitKey /\ [][NextKey]_vars

NextStore ==
    \/ CallStore
    \/ WriteLock
    \/ AssignConfig
    \/ SetReturn
    \/ GetReadLock
    \/ GetReturn
    \/ IsSetReadLock
    \/ IsSetReturn

\* The Config store called by the host's threads, no failure injected.
SpecStore == Init /\ [][NextStore]_vars

NextStoreFault ==
    \/ NextStore
    \/ WriterPanics

\* The Config store called by the host's threads, where a writer may fail
\* while it holds the lock.
SpecStoreFault == Init /\ [][NextStoreFault]_vars

\* The conversions from integer codes, applied to every u8.
SpecCodes == Init /\ [][ConvertCode]_vars

\* The decoder given documents from outside: the encoding of a sample Info
\* with up to MaxTampers fields replaced.
SpecDecode ==
    /\ CONFIG = None /\ poisoned = FALSE /\ builder = None /\ last_op = "none"
    /\ result = None /\ info = None /\ decoded = None /\ tampers = 0
    /\ xml \in { ser_Info(build(b).info) : b \in SampleBuilders }
    /\ key_in = example_bare_id /\ key_edits = 0 /\ key_out = None
    /\ threads = [ t \in Threads |-> idle ]
    /\ lock = [ writers |-> {}, readers |-> {} ]
    /\ history = [ calls |-> 0, effects |-> 0, returned |-> 0, last |-> None,
                   issuers |-> {} ]
    /\ probe = None
    /\ [][Corrupt \/ Tamper \/ Decode]_vars

\* Key generation on decoded Identification values, in a process whose zone
\* is any of Zones and may change.
SpecZone ==
    /\ CONFIG = None /\ poisoned = FALSE /\ builder = None /\ last_op = "none"
    /\ result = None /\ info = None /\ xml = None /\ decoded = None /\ tampers = 0
    /\ key_in = example_bare_id /\ key_edits = 0 /\ key_out = None
    /\ threads = [ t \in Threads |-> idle ]
    /\ lock = [ writers |-> {}, readers |-> {} ]
    /\ history = [ calls |-> 0, effects |-> 0, returned |-> 0, last |-> None,
                   issuers |-> {} ]
    /\ \E zone \in Zones : probe = [ fn |-> "key", TZ |-> zone, runs |-> << >> ]
    /\ [][SetZone \/ KeyOfDecoded]_vars

\* Each action applies one part of the codec to one input.
NextParts ==
    \/ PaymentTypeText
    \/ PaymentTypeFromText
    \/ EncodeDetails
    \/ RoundTripIdentification
    \/ RoundTripItem
    \/ DecodeTaggedUnion

\* The parts of the codec applied on their own to every input of their samples.
SpecParts == Init /\ [][NextParts]_vars

----------------------------------------------------------------------------
(* Properties *)

\* The weight of the i-th digit from the left: 4, 3, 2, then 9 down to 2 repeating.
Mod11Weight(i) == IF i <= 3 THEN 5 - i ELSE 9 - ((i - 4) % 8)

RECURSIVE Mod11Sum(_, _)
Mod11Sum(digits, i) ==
    IF i > Len(digits) THEN 0 ELSE digits[i] * Mod11Weight(i) + Mod11Sum(digits, i + 1)

\* The modulus-11 check digit by its definition.
Mod11Reference(digits) ==
    LET remainder == Mod11Sum(digits, 1) % 11
    IN  IF remainder \in {0, 1} THEN 0 ELSE 11 - remainder

\* The payments of an Info or builder balance its total.
Balanced(payments, total) == within_EPSILON(paid_sum(payments), total.icms.total)

\* C1: Build succeeds if and only if the sum of the payments equals the computed
\* total within the tolerance; otherwise it returns PaymentsDoNotMatchTotal with
\* the computed total as expected and the paid sum as actual, and no Info.
C1_BuildIffBalanced ==
    (result # None /\ result.op = "build") =>
        LET b == result.args[1]
            computed == calculate(b)
            o == result.outcome
        IN  /\ (o.kind = "Ok") <=> Balanced(b.payments, computed)
            /\ ~Balanced(b.payments, computed) =>
                 /\ o.kind = "Err"
                 /\ o.error = [ kind |-> "PaymentsDoNotMatchTotal",
                                expected |-> computed.icms.total,
                                total |-> paid_sum(b.payments) ]
                 /\ info = None

\* C2: for every 43-digit input verifier_digit is the modulus-11 weighted check
\* digit (weights 4, 3, 2, 9, 8, ..., 2, 9, ...; remainder 0 or 1 gives 0, else
\* 11 - remainder), and it is a single digit 0..9.
C2_VerifierDigitIsMod11 ==
    key_out # None =>
        /\ Len(key_out.id) = 43
        /\ key_out.digit = Mod11Reference(key_out.id)
        /\ key_out.digit \in 0 .. 9

\* C2 witness: the digit of the worked example has been computed, and it is 3.
C2_Witness ==
    /\ key_out # None
    /\ key_out.id = example_bare_id
    /\ key_out.digit = 3

\* C3: for every Identification and Issuer a builder holds, the string bare_id
\* pushes together is exactly 43 characters (so its assertion holds), and for the
\* worked example it is 3123101234567800019565001000012345112345678.
C3_BareIdIs43 ==
    builder # None =>
        /\ Len(bare_id_pushed(builder.identification, builder.issuer)) = 43
        /\ ~bare_id_panics(builder.identification, builder.issuer)
        /\ (builder.identification = setup_identification /\ builder.issuer = setup_issuer)
             => bare_id(builder.identification, builder.issuer) = example_bare_id

\* C4: decoding recomputes the identifier from the decoded ide and emit and fails
\* with an error, returning no Info, whenever it differs from the Id attribute;
\* an Info is returned only when the two are equal.
C4_IdRevalidated ==
    decoded # None =>
        LET identification == de_Identification(xml.val.ide)
            issuer == de_Issuer(xml.val.emit)
        IN  /\ decoded.ok =>
                 id(decoded.val.identification, decoded.val.issuer) = xml.val.Id
            /\ ( /\ identification.ok
                 /\ issuer.ok
                 /\ id(identification.val, issuer.val) # xml.val.Id ) => IsErr(decoded)

\* C5: decoding the document encoded from the Info of a successful build succeeds
\* and yields an Info equal to the original.
C5_RoundTrip ==
    (decoded # None /\ tampers = 0) => (decoded.ok /\ decoded.val = info)

\* C6: the Info of a successful build carries the modulus-11 check digit of its
\* own bare id, whatever digit the caller put in the Identification.
C6_BuiltDigitIsComputed ==
    info # None =>
        info.identification.verifier_digit
          = Mod11Reference(bare_id(info.identification, info.issuer))

\* C6 witness: the fixture's Identification came in with digit 5 and the Info
\* built from it carries 3.
C6_Witness ==
    /\ info # None
    /\ result.op = "build"
    /\ result.args[1].identification = setup_identification
    /\ result.args[1].identification.verifier_digit = 5
    /\ info.identification.verifier_digit = 3

\* The successor pairs of the order Start, AddDetail*, SetAuthorized?, SetTransport?.
StagedOrder ==
    { <<"new", "add_detail">>, <<"new", "set_authorized">>, <<"new", "set_transport">>,
      <<"add_detail", "add_detail">>, <<"add_detail", "set_authorized">>,
      <<"add_detail", "set_transport">>, <<"set_authorized", "set_transport">> }

\* C7 (as stated): on one builder value the operations come in the order Start,
\* zero or more AddDetail, at most one SetAuthorized, at most one SetTransport,
\* Build; after Build the builder is gone.
C7_StagedOrder ==
    [][ /\ (builder # None /\ builder' # None /\ builder' # builder)
            => <<last_op, last_op'>> \in StagedOrder
        /\ (last_op' = "build") => (builder' = None) ]_vars

\* C7 (amended): a builder value comes from Start only; while it exists it changes
\* only by AddDetail, SetAuthorized or SetTransport, in any order and any number
\* of times; Build ends it whatever its outcome, and nothing but Build does.
C7_AnyOrderThenBuild ==
    [][ /\ (builder = None /\ builder' # None)
            => (last_op' = "new" /\ result'.op = "new" /\ result'.outcome.ok)
        /\ (builder # None /\ builder' # None /\ builder' # builder)
            => last_op' \in {"add_detail", "set_authorized", "set_transport"}
        /\ (builder # None /\ last_op' = "build")
            => (builder' = None /\ result'.op = "build" /\ result'.args = <<builder>>)
        /\ (builder # None /\ builder' = None) => last_op' = "build" ]_vars

\* C7 witness: a detail was added to a builder whose authorized list and
\* transport were already set.
C7_Witness ==
    /\ builder # None
    /\ last_op = "add_detail"
    /\ builder.authorized # None
    /\ builder.transport # None
    /\ Len(builder.details) = 2

\* C8: every build attempt ends in an Info, a ConfigError from Start or a
\* PaymentsDoNotMatchTotal from Build, and in nothing else (no panic).
C8_ThreeOutcomes ==
    result # None =>
        /\ (result.op = "new")
             => (result.outcome.ok \/ result.outcome.err.kind = "ConfigError")
        /\ (result.op = "build")
             => \/ (result.outcome.kind = "Ok" /\ info = result.outcome.info)
                \/ /\ result.outcome.kind = "Err"
                   /\ result.outcome.error.kind = "PaymentsDoNotMatchTotal"

\* C9: Start returns ConfigError(Locked) and no builder when the lock is
\* unavailable, ConfigError(NotInitialized) and no builder when the store was
\* never set, and otherwise a builder holding the stored issuer, the given
\* identification and payments, no details, no authorized list, no transport.
C9_Start ==
    [][ (result' # result /\ result'.op = "new") =>
          LET o == result'.outcome
          IN  /\ poisoned =>
                   /\ ~o.ok
                   /\ o.err = [ kind |-> "ConfigError", error |-> "Locked" ]
                   /\ builder' = None
              /\ (~poisoned /\ CONFIG = None) =>
                   /\ ~o.ok
                   /\ o.err = [ kind |-> "ConfigError", error |-> "NotInitialized" ]
                   /\ builder' = None
              /\ (~poisoned /\ CONFIG # None) =>
                   /\ o.ok
                   /\ builder' = o.val
                   /\ builder'.issuer = CONFIG.issuer
                   /\ builder'.identification = result'.args[1]
                   /\ builder'.payments = result'.args[2]
                   /\ builder'.details = <<>>
                   /\ builder'.authorized = None
                   /\ builder'.transport = None ]_vars

\* C9 witness: Start failed with Locked although a configuration is stored.
C9_Witness ==
    /\ result # None
    /\ result.op = "new"
    /\ ~result.outcome.ok
    /\ result.outcome.err.error = "Locked"
    /\ CONFIG # None
    /\ builder = None

\* C10: every Info, built or decoded, pays its total: the sum of its payments
\* equals total.icms.total within the tolerance.
C10_BalanceInvariant ==
    /\ info # None => Balanced(info.payments, info.total)
    /\ (decoded # None /\ decoded.ok) => Balanced(decoded.val.payments, decoded.val.total)

\* The thread has left a call of op.
Finished(t, op) == threads[t].pc = "idle" /\ threads[t].op = op

AnswersFollowCompletion ==
    \A t \in Threads :
        /\ Finished(t, "is_set") => threads[t].ret = Ok(threads[t].read.returned > 0)
        /\ Finished(t, "get_issuer") =>
             /\ threads[t].ret.ok <=> threads[t].read.returned > 0
             /\ ~threads[t].ret.ok => threads[t].ret = Err("NotInitialized")

\* C12: is_set is true exactly when a set_config has completed; before that
\* get_issuer fails with NotInitialized, after that it succeeds; the store is
\* never unset again.
C12_SetOnceSetForever ==
    /\ []AnswersFollowCompletion
    /\ [][CONFIG # None => CONFIG' # None]_vars

\* C12 witness: one is_set answered false, a set_config completed, and a later
\* is_set answered true.
C12_Witness ==
    \E t, u \in Threads :
        /\ Finished(t, "is_set") /\ threads[t].ret = Ok(FALSE)
        /\ Finished(u, "is_set") /\ threads[u].ret = Ok(TRUE)
        /\ history.returned = 1

\* C13: a writer never holds the store together with a reader or with another
\* writer; the holders are the threads between acquiring and returning; and
\* get_issuer returns only issuers given to a set_config that completed.
C13_ReadWriteDiscipline ==
    /\ Cardinality(lock.writers) <= 1
    /\ lock.writers # {} => lock.readers = {}
    /\ lock.writers = { t \in Threads : threads[t].pc \in {"assign", "set_return"} }
    /\ lock.readers = { t \in Threads : threads[t].pc \in {"get_value", "is_set_value"} }
    /\ \A t \in Threads :
         (Finished(t, "get_issuer") /\ threads[t].ret.ok)
           => threads[t].ret.val \in history.issuers

\* C13 witness: two readers hold the store together.
C13_Witness ==
    /\ Cardinality(lock.readers) = 2
    /\ lock.writers = {}
    /\ CONFIG # None

\* C14: with the lock poisoned, set_config, get_issuer and is_set all return
\* ConfigError::Locked; none of them panics.
C14_PoisonIsTypedError ==
    \A t \in Threads :
        threads[t].poisoned =>
            /\ ~IsPanic(threads[t].ret)
            /\ threads[t].ret = Err("Locked")

\* C15: in every code set, converting n succeeds exactly when n is the code of a
\* variant and then returns that variant; for every other n it returns an
\* error and does not panic.
C15_FromCodeTotal ==
    (probe # None /\ probe.fn = "from_code") =>
        LET codes == CodeSets[probe.set].codes
            known == \E v \in DOMAIN codes : codes[v] = probe.value
        IN  /\ known => (probe.out.ok /\ codes[probe.out.val] = probe.value)
            /\ ~known => IsErr(probe.out)

\* The document has a field whose content is outside the field's allowed set.
OutsideAllowedSet(doc) ==
    \/ doc.ide.indFinal \notin { to_string(0), to_string(1) }
    \/ (parse_u8(doc.ide.indPres).ok /\ parse_u8(doc.ide.indPres).val # 0
          /\ ~try_from(PresenceCode, parse_u8(doc.ide.indPres).val).ok)
    \/ ~parse_from_rfc3339(doc.ide.dhEmi).ok
    \/ ~parse_u32(doc.ide.nNF).ok
    \/ ~de_code(EnvironmentCode, doc.ide.tpAmb).ok
    \/ \E k \in 1 .. Len(doc.pag) :
         ~de_code(PaymentTypeCode, doc.pag[k].tPag).ok \/ ~parse_f64(doc.pag[k].vPag).ok
    \/ \E k \in 1 .. Len(doc.det) :
         \/ doc.det[k].prod.indTot \notin { to_string(0), to_string(1) }
         \/ ~de_code(OriginCode, doc.det[k].imposto.ICMS.ICMSSN102.some.orig).ok
         \/ ~de_code(CSOSNCode, doc.det[k].imposto.ICMS.ICMSSN102.some.CSOSN).ok

\* C16: decoding returns a value or an error and never panics, and a document
\* with a field outside its allowed set is answered with an error, never with
\* a value in which the field was replaced by a default.
C16_DecodeTotalAndStrict ==
    decoded # None =>
        /\ decoded.ok \/ IsErr(decoded)
        /\ OutsideAllowedSet(xml.val) => IsErr(decoded)

RECURSIVE Sigma(_)
\* The sum of the values of a function with a finite domain.
Sigma(f) ==
    IF DOMAIN f = {} THEN 0
    ELSE LET i == CHOOSE i \in DOMAIN f : TRUE
         IN  f[i] + Sigma([ j \in DOMAIN f \ {i} |-> f[j] ])

\* The components of a Total that Total::calculate leaves at zero.
ZeroComponents ==
    { "base", "value", "unburdened", "fcp_value", "base_tributary_substitution",
      "total_tributary_substitution", "fcp_value_tributary_substitution",
      "retained_fcp_value_tributary_substitution", "freight", "insurance",
      "import_tax", "industrial_tax", "refunded_industrial_tax", "pis_value",
      "cofins_value" }

C18_KeyDependsOnInputsOnly ==
    (probe # None /\ probe.fn = "key") =>
        \A i, j \in 1 .. Len(probe.runs) :
            eq_DateTime(probe.runs[i].date, probe.runs[j].date)
                => probe.runs[i].key = probe.runs[j].key

\* C19: wherever id() returns, its string is "NFe", the 43 characters of the
\* bare id and the one check digit of that bare id: 47 characters.
C19_IdIs47 ==
    (xml # None /\ xml.ok /\ tampers = 0) =>
        LET Id == xml.val.Id
            bare == SubSeq(Id, 4, 46)
        IN  /\ Len(Id) = 47
            /\ SubSeq(Id, 1, 3) = <<78, 70, 101>>
            /\ Len(bare) = 43
            /\ bare = bare_id(info.identification, info.issuer)
            /\ \A k \in 1 .. 43 : bare[k] \in 0 .. 9
            /\ Id[47] = Mod11Reference(bare)

\* C19 witness: the encoded Info of invoice 7, series 255, issued in Sao Paulo
\* in December, carries a 47-character Id.
C19_Witness ==
    /\ xml # None
    /\ xml.ok
    /\ tampers = 0
    /\ info.identification.series = 255
    /\ info.identification.emission_date.month = 12
    /\ Len(xml.val.Id) = 47

\* The elements that the serializers write under a condition; every other
\* element of a part is written always.
ConditionalElements ==
    [ infNFe |-> { "autXML" }, ide |-> { "dhSaiEnt", "tpImp", "intermed" },
      emit |-> { "xFant" }, enderEmit |-> { "xCpl" },
      prod |-> { "cEAN", "vDesc", "vOutro" } ]

\* The encoded part el has an element called name.
written(part, el, name) ==
    name \notin ConditionalElements[part] \/ el[name] # None

\* The elements the encoder leaves out when the field is absent: dhSaiEnt,
\* tpImp, intermed, xCpl, vDesc, vOutro, autXML.
OmittedWhenAbsent(i, doc) ==
    /\ i.identification.date = None => ~written("ide", doc.ide, "dhSaiEnt")
    /\ i.identification.printing_type = None => ~written("ide", doc.ide, "tpImp")
    /\ i.identification.intermediator = None => ~written("ide", doc.ide, "intermed")
    /\ i.issuer.address.address.line_2 = None
         => ~written("enderEmit", doc.emit.enderEmit, "xCpl")
    /\ i.authorized = None => ~written("infNFe", doc, "autXML")
    /\ \A k \in 1 .. Len(i.details) :
         /\ i.details[k].item.discount_value = None
              => ~written("prod", doc.det[k].prod, "vDesc")
         /\ i.details[k].item.other_value = None
              => ~written("prod", doc.det[k].prod, "vOutro")

\* C20: the encoder writes no element, empty or placeholder, for any absent
\* optional field, the presence of the Identification and the gtin of an Item
\* included.
C20_AbsentIsOmitted ==
    (xml # None /\ xml.ok /\ tampers = 0) =>
        /\ OmittedWhenAbsent(info, xml.val)
        /\ info.identification.presence = None
             => ~written("ide", xml.val.ide, "indPres")
        /\ \A k \in 1 .. Len(info.details) :
             info.details[k].item.gtin = None =>
                 /\ ~written("prod", xml.val.det[k].prod, "cEAN")
                 /\ ~written("prod", xml.val.det[k].prod, "cEANTrib")

\* C21: in an encoded Info every monetary text (vPag, the components of ICMSTot,
\* vProd, vUnCom, vUnTrib, vDesc and vOutro of an item) has exactly 2 fractional
\* digits and every quantity (qCom, qTrib) exactly 4; 40.0 is written 40.00 and
\* the quantity 3.0 is written 3.0000.
C21_FixedDecimals ==
    (xml # None /\ xml.ok /\ tampers = 0) =>
        /\ \A k \in 1 .. Len(xml.val.pag) : Len(xml.val.pag[k].vPag.frac) = 2
        /\ \A e \in DOMAIN xml.val.total.ICMSTot : Len(xml.val.total.ICMSTot[e].frac) = 2
        /\ \A k \in 1 .. Len(xml.val.det) :
             LET prod == xml.val.det[k].prod
             IN  /\ Len(prod.vProd.frac) = 2
                 /\ Len(prod.vUnCom.frac) = 2
                 /\ Len(prod.vUnTrib.frac) = 2
                 /\ prod.vDesc # None => Len(prod.vDesc.some.frac) = 2
                 /\ prod.vOutro # None => Len(prod.vOutro.some.frac) = 2
                 /\ Len(prod.qCom.frac) = 4
                 /\ Len(prod.qTrib.frac) = 4
        /\ \A k \in 1 .. Len(info.payments) :
             info.payments[k].value = amount(4000)
                 => xml.val.pag[k].vPag = [ int |-> <<4, 0>>, frac |-> <<0, 0>> ]
        /\ \A k \in 1 .. Len(info.details) :
             info.details[k].item.quantity = 3 * Scale
                 => xml.val.det[k].prod.qCom = [ int |-> <<3>>, frac |-> <<0, 0, 0, 0>> ]

\* C22: every PaymentType is written as exactly two decimal digits, its code
\* padded with a zero on the left (Cash 01, PIX 17), and reading that text
\* returns the same PaymentType; a text that is no number or a number outside
\* the 14 codes is read as an error.
C22_PaymentTypeTwoDigits ==
    /\ Cardinality(DOMAIN PaymentTypeCode) = 14
    /\ (probe # None /\ probe.fn = "tPag") =>
          /\ Len(probe.text) = 2
          /\ \A k \in 1 .. 2 : probe.text[k] \in 0 .. 9
          /\ 10 * probe.text[1] + probe.text[2] = PaymentTypeCode[probe.type]
          /\ probe.type = "Cash" => probe.text = <<0, 1>>
          /\ probe.type = "PIX" => probe.text = <<1, 7>>
          /\ probe.out = Ok(probe.type)
    /\ (probe # None /\ probe.fn = "tPag_text") =>
          LET known == /\ \A k \in 1 .. Len(probe.text) : probe.text[k] \in 0 .. 9
                       /\ \E type \in DOMAIN PaymentTypeCode :
                            PaymentTypeCode[type] = parse_digits(probe.text, 0)
          IN  IF known THEN probe.out.ok ELSE IsErr(probe.out)

\* C22 witness: Cash was written as 01 and read back.
C22_Witness ==
    /\ probe # None
    /\ probe.fn = "tPag"
    /\ probe.type = "Cash"
    /\ probe.text = <<0, 1>>
    /\ probe.out = Ok("Cash")

\* The det elements of doc are those of the details, in list order, the k-th
\* with nItem = k.
NumberedInOrder(doc, details) ==
    /\ Len(doc.det) = Len(details)
    /\ \A k \in 1 .. Len(details) :
         /\ doc.det[k].nItem = k
         /\ doc.det[k].prod = ser_Item(details[k].item)
         /\ doc.det[k].imposto = ser_Tax(details[k].tax)

\* C23: in the encoding of an Info with n details the k-th det element carries
\* nItem = k, in list order; the number is computed at encoding, so the
\* reordered list and the list with a detail removed are numbered 1..n again.
C23_ItemsNumberedByPosition ==
    (probe # None /\ probe.fn = "det") =>
        /\ NumberedInOrder(probe.doc, probe.details)
        /\ NumberedInOrder(probe.reordered, reversed(probe.details))
        /\ probe.details # <<>> => NumberedInOrder(probe.shortened, Tail(probe.details))

\* C23 witness: two different details were encoded, in both orders and with
\* the first removed.
C23_Witness ==
    /\ probe # None
    /\ probe.fn = "det"
    /\ Len(probe.details) = 2
    /\ probe.details[1] # probe.details[2]
    /\ probe.reordered.det[1].nItem = 1
    /\ probe.reordered.det[1].prod = probe.doc.det[2].prod
    /\ probe.shortened.det[1].nItem = 1

\* C25: decoding the encoding of an Identification succeeds and returns an equal
\* Identification, for presence absent or any of the six variants, consumer
\* true or false, and exit date, printing type and intermediator present or
\* absent.
C25_IdentificationRoundTrip ==
    (probe # None /\ probe.fn = "ide") => probe.out = Ok(probe.in)

\* C26: decoding the encoding of an Item whose money has at most 2 decimals and
\* whose quantities have at most 4 succeeds and returns an equal Item, with gtin,
\* discount_value and other_value present or absent; an absent gtin comes back
\* absent.
C26_ItemRoundTrip ==
    (probe # None /\ probe.fn = "prod") =>
        /\ probe.out = Ok(probe.in)
        /\ probe.in.gtin = None => (probe.out.ok /\ probe.out.val.gtin = None)

C28_DecodedDigitIsValidated ==
    (decoded # None /\ decoded.ok) =>
        /\ decoded.val.identification.verifier_digit
             = Mod11Reference(bare_id(decoded.val.identification, decoded.val.issuer))
        /\ xml.val.ide.cDV = <<xml.val.Id[Len(xml.val.Id)]>>

\* C29: the builder's issuer is the one the Config store held when Start read
\* it; no later step changes it, whatever set_config does in between, and the
\* Info a Build returns carries it: Build does not read the store.
C29_IssuerSnapshot ==
    [][ /\ (builder = None /\ builder' # None) =>
             (CONFIG # None /\ builder'.issuer = CONFIG.issuer)
        /\ (builder # None /\ builder' # None) => builder'.issuer = builder.issuer
        /\ (builder # None /\ builder' = None /\ info' # None) =>
             info'.issuer = builder.issuer ]_vars

\* C29 witness: an Info was built with the issuer of its builder after the
\* store had been given another issuer.
C29_Witness ==
    /\ info # None
    /\ last_op = "build"
    /\ result.op = "build"
    /\ CONFIG # None
    /\ CONFIG.issuer # result.args[1].issuer
    /\ info.issuer = result.args[1].issuer

\* C30: Build only assembles what the stages accumulated. A stage other than
\* Build changes only its own field of the builder: Start leaves details empty,
\* authorized and transport absent, and keeps the identification and payments it
\* was given; AddDetail appends its detail after the earlier ones;
\* SetAuthorized and SetTransport replace their field by their argument,
\* whatever it held before. Build returns the details in that order, authorized
\* as last set or absent, transport as last set or the default (freight mode
\* None, code 9), the payments, and the identification given to Start in every
\* field other than verifier_digit.
StageChangesOwnField ==
    /\ last_op' = "add_detail" =>
         \E detail \in Details :
             builder' = [ builder EXCEPT !.details = builder.details \o <<detail>> ]
    /\ last_op' = "set_authorized" =>
         \E authorized \in Authorizeds :
             builder' = [ builder EXCEPT !.authorized = [ some |-> authorized ] ]
    /\ last_op' = "set_transport" =>
         \E transport \in Transports :
             builder' = [ builder EXCEPT !.transport = [ some |-> transport ] ]

C30_BuildAssemblesStages ==
    [][ /\ (builder = None /\ builder' # None) =>
             /\ builder'.details = << >>
             /\ builder'.authorized = None
             /\ builder'.transport = None
             /\ builder'.identification = result'.args[1]
             /\ builder'.payments = result'.args[2]
        /\ (builder # None /\ builder' # None /\ builder' # builder) =>
             StageChangesOwnField
        /\ (builder # None /\ builder' = None /\ info' # None) =>
             /\ info'.details = builder.details
             /\ info'.authorized = builder.authorized
             /\ info'.transport = IF builder.transport = None
                                    THEN [ type |-> "None" ]
                                    ELSE builder.transport.some
             /\ TransportTypeCode[info'.transport.type] =
                  IF builder.transport = None
                    THEN 9 ELSE TransportTypeCode[builder.transport.some.type]
             /\ info'.payments = builder.payments
             /\ info'.identification =
                  [ builder.identification EXCEPT
                      !.verifier_digit = info'.identification.verifier_digit ] ]_vars

\* C30: an Info built from two different details, in the order of the calls,
\* with the authorized list and the freight mode the stages set.
C30_Witness ==
    /\ info # None /\ last_op = "build" /\ result.op = "build"
    /\ Len(info.details) = 2 /\ info.details[1] # info.details[2]
    /\ info.details = result.args[1].details
    /\ info.authorized # None /\ info.authorized = result.args[1].authorized
    /\ result.args[1].transport # None
    /\ info.transport = result.args[1].transport.some
    /\ info.transport.type = "CIF"

\* C30: an Info built without SetTransport carries the default freight mode.
C30_DefaultTransport ==
    /\ info # None /\ last_op = "build" /\ result.op = "build"
    /\ result.args[1].transport = None /\ result.args[1].authorized = None
    /\ info.transport.type = "None" /\ info.authorized = None

====
